---------------------------- MODULE Spec2Model ----------------------------
(***************************************************************************)
(* Model of the Flowers bot (turtwig59/flowers): the SQLite store          *)
(* (guests, conversation_state), the message router and guest handlers,    *)
(* the host invite path, the event-creation gate and the expiration        *)
(* sweeper.                                                                *)
(*                                                                         *)
(* Every call of the Database class opens its own connection and commits   *)
(* on return, so each call is one atomic step on the store and a handler   *)
(* is a sequence of such steps.  A step is a function on a pair            *)
(* [w |-> the store, l |-> the locals of the running call]; the actions    *)
(* apply one step of one process, and the operators Run / RunSweep apply   *)
(* the steps of one handler or one sweep back to back, which is the        *)
(* handler or the sweep running alone.                                     *)
(*                                                                         *)
(* Guest ids are identified with phones (UNIQUE(event_id, phone)).  The    *)
(* message_log table, the outbound transport and the daily log are not     *)
(* part of the model; no control flow of the modelled code reads them.     *)
(***************************************************************************)
EXTENDS Integers, Sequences, FiniteSets, TLC

\* ------------------------------------------------------------ bounds
NumPhones == 4
MaxTicks == 4
NumHandlers == 2
NumSpenders == 3
NumSpeakers == 2
MaxRetry == 2
NumFollowers == 3
NumCallers == 3
MaxRestarts == 1

\* ------------------------------------------------------------ constants
INVITE_WARNING_SECONDS == 2700
INVITE_EXPIRE_SECONDS == 3600
PLUS_ONE_WARNING_SECONDS == 2700
PLUS_ONE_EXPIRE_SECONDS == 3600
FEATURE_DEPLOY_TIME == 1770396900

\* The cap of the guest-facing copy and of the sweeper ("two invites").
InviteCap == 2

\* The clock advances in steps of 15 minutes, the distance between the
\* warning and the expiry of a window.
TickSeconds == INVITE_EXPIRE_SECONDS - INVITE_WARNING_SECONDS
StartTime == FEATURE_DEPLOY_TIME
EndTime == StartTime + MaxTicks * TickSeconds

\* NULL in a phone column (invited_by_phone of a host invite).
NoPhone == 0
Phones == 1..NumPhones
HostPhone == NumPhones + 1
Handlers == 1..NumHandlers
Spenders == 1..NumSpenders
Speakers == 1..NumSpeakers

\* ------------------------------------------------------------ rows
\* A row of guests; status "none" stands for "no such row".
NoGuest ==
    [status |-> "none", invited_by_phone |-> NoPhone, quota_used |-> 0,
     invited_at |-> 0, responded_at |-> 0, name |-> FALSE, instagram |-> FALSE]

\* INSERT INTO guests (event_id, phone, invited_by_phone, invited_at): the
\* column defaults give status 'pending' and quota_used 0.
NewGuest(inviter, t) ==
    [status |-> "pending", invited_by_phone |-> inviter, quota_used |-> 0,
     invited_at |-> t, responded_at |-> 0, name |-> FALSE, instagram |-> FALSE]

\* A conversation context is a set of <<key, value>> pairs, one per key.
EmptyCtx == {}
Ctx(k, v) == {<<k, v>>}
CtxHas(ctx, k) == \E kv \in ctx : kv[1] = k
CtxGet(ctx, k, default) ==
    IF CtxHas(ctx, k) THEN (CHOOSE kv \in ctx : kv[1] = k)[2] ELSE default

\* A row of conversation_state; state "none" stands for "no such row".
NoConv == [state |-> "none", context |-> EmptyCtx]

\* ------------------------------------------------------------ the store
\* w.guests   : the guests of the event, by phone
\* w.conv     : conversation_state rows of the event, by phone (host included)
\* w.creation : conversation_state rows with event_id = 0 (event creation)
\* w.active   : id of the active event (1 is the event the guests belong to)
\* w.now      : time.time()

\* A guard that lets the value 2 through.
enforce_quota_above_two(newRow) == newRow.quota_used > 2

\* enforce_quota: BEFORE UPDATE ON guests WHEN NEW.quota_used > 1 -> ABORT
enforce_quota(newRow) == newRow.quota_used > 1

\* Database.update_guest(id, **kwargs): one UPDATE in its own transaction;
\* status confirmed/declined also stamps responded_at.  The result is the
\* new store and whether the trigger aborted the statement.
update_guest(w, id, kwargs) ==
    LET old == w.guests[id]
        stamped == IF "status" \in DOMAIN kwargs
                      /\ kwargs.status \in {"confirmed", "declined"}
                   THEN [f \in DOMAIN old |->
                            IF f = "responded_at" THEN w.now ELSE old[f]]
                   ELSE old
        new == [f \in DOMAIN old |->
                   IF f \in DOMAIN kwargs THEN kwargs[f] ELSE stamped[f]]
    IN  IF old.status = "none" THEN [w |-> w, aborted |-> FALSE]
        ELSE IF enforce_quota(new) THEN [w |-> w, aborted |-> TRUE]
        ELSE [w |-> [w EXCEPT !.guests[id] = new], aborted |-> FALSE]

\* Database.create_guest: INSERT; UNIQUE(event_id, phone) rejects a second row.
create_guest(w, phone, inviter) ==
    IF w.guests[phone].status # "none" THEN [w |-> w, aborted |-> TRUE]
    ELSE [w |-> [w EXCEPT !.guests[phone] = NewGuest(inviter, w.now)],
          aborted |-> FALSE]

\* Database.upsert_conversation_state: state and context are both replaced.
upsert_conversation_state(w, phone, state, context) ==
    [w EXCEPT !.conv[phone] = [state |-> state, context |-> context]]

\* A merge that puts the given keys in the place of the context.
merge_conversation_context_replacing(w, phone, new) ==
    IF w.conv[phone].state = "none" THEN w
    ELSE [w EXCEPT !.conv[phone].context = new]

\* Database.merge_conversation_context: the given keys are set, the state and
\* the other keys are kept; a missing row is left missing.
merge_conversation_context(w, phone, new) ==
    LET old == w.conv[phone]
        kept == {kv \in old.context : ~CtxHas(new, kv[1])}
    IN  IF old.state = "none" THEN w
        ELSE [w EXCEPT !.conv[phone] = [old EXCEPT !.context = kept \cup new]]

\* Database.can_invite_plus_one: a fresh read of the guest row.
can_invite_plus_one(w, id) ==
    LET guest == w.guests[id]
    IN  IF guest.status = "none" THEN "Guest not found"
        ELSE IF guest.status # "confirmed" THEN "Only confirmed guests can invite"
        ELSE IF guest.quota_used >= 1 THEN "You've already invited someone"
        ELSE "OK"


\* ------------------------------------------------------------ messages
\* An inbound text, by what the deterministic parsers and the language model
\* make of it:
\*   create     'create' and 'event' both occur in the text
\*   cancel     the text is cancel/stop/quit/nevermind (event creation)
\*   valid      the text passes the validation of the creation prompt
\*   done       the text is none/done/finish/no/skip (creation, rules prompt)
\*   faq        detect_faq finds a FAQ keyword
\*   yes, no    detect_yes, detect_no
\*   phone      extract_phone_from_text (NoPhone: none found)
\*   vcard      phone of the attached contact card (NoPhone: no card)
\*   normalizable  normalize_phone accepts the submitted phone
\*   name       extract_name_from_text finds a name
\*   skip       _is_instagram_skip
\*   handle     _extract_instagram_handle finds a handle
\*   llm        answer of the language model when it is consulted: "none"
\*              (unavailable, raised or nothing usable), "yes", "no", "name",
\*              "skip", "handle", "contact", "escalate", "answer"
\*   llm_phone  the phone of an llm "contact" answer
NoMsg ==
    [create |-> FALSE, cancel |-> FALSE, valid |-> FALSE, done |-> FALSE,
     faq |-> FALSE, yes |-> FALSE, no |-> FALSE, phone |-> NoPhone,
     vcard |-> NoPhone, normalizable |-> TRUE, name |-> FALSE, skip |-> FALSE,
     handle |-> FALSE, llm |-> "none", llm_phone |-> NoPhone]

\* The texts "yes", "no", "where is it?", "Alice", "skip", a phone number,
\* "hmm what?", "create event" and "cancel".
MsgYes == [NoMsg EXCEPT !.yes = TRUE, !.name = TRUE, !.handle = TRUE, !.valid = TRUE]
MsgNo ==
    [NoMsg EXCEPT !.no = TRUE, !.skip = TRUE, !.done = TRUE, !.name = TRUE,
                  !.handle = TRUE]
MsgFaq == [NoMsg EXCEPT !.faq = TRUE, !.valid = TRUE]
MsgName == [NoMsg EXCEPT !.name = TRUE, !.handle = TRUE, !.valid = TRUE]
MsgSkip ==
    [NoMsg EXCEPT !.skip = TRUE, !.done = TRUE, !.name = TRUE, !.handle = TRUE,
                  !.valid = TRUE]
MsgPhone(t) == [NoMsg EXCEPT !.phone = t, !.valid = TRUE]
MsgOther == [NoMsg EXCEPT !.valid = TRUE]
MsgCreate == [NoMsg EXCEPT !.create = TRUE, !.name = TRUE, !.valid = TRUE]
MsgCancel ==
    [NoMsg EXCEPT !.cancel = TRUE, !.name = TRUE, !.handle = TRUE, !.valid = TRUE]

\* ------------------------------------------------------------ locals
\* The locals of one message-handling process (imsg_integration.py run once):
\*   pc      the next store access of the call ("idle": not running,
\*           "done": route_message has returned `reply`)
\*   phone   the sender;  msg  the text
\*   guest   route_message's `guest` (the row as read at the start)
\*   state   route_message's `state`
\*   target  the phone being invited
\*   n       a value read earlier in the call (retry_count, a failure reason)
\*   ret     where send_invite returns to
\*   reply   the response text, by kind
IdleLocal ==
    [pc |-> "idle", phone |-> NoPhone, msg |-> NoMsg, guest |-> NoGuest,
     state |-> "none", target |-> NoPhone, n |-> 0, ret |-> "none",
     reply |-> "none"]

StartLocal(phone, msg) ==
    [IdleLocal EXCEPT !.pc = "route_creation", !.phone = phone, !.msg = msg]

Goto(w, l, pc) == [w |-> w, l |-> [l EXCEPT !.pc = pc]]
Return(w, l, reply) == [w |-> w, l |-> [l EXCEPT !.pc = "done", !.reply = reply]]
\* An exception that leaves route_message: handle_incoming_message answers
\* "Sorry, something went wrong. Please try again."
Raise(w, l) == Return(w, l, "error")

ReasonCode(reason) ==
    CASE reason = "Guest not found" -> 1
      [] reason = "Only confirmed guests can invite" -> 2
      [] reason = "You've already invited someone" -> 3
      [] OTHER -> 0

\* ------------------------------------------------------------ route_message
\* The phone a contact submission is about: the card's, else the text's.
SubmittedPhone(msg) == IF msg.vcard # NoPhone THEN msg.vcard ELSE msg.phone

\* handle_contact_submission is entered with the phone it will extract.
EnterContactSubmission(w, l, target) ==
    [w |-> w, l |-> [l EXCEPT !.pc = "cs_can_invite", !.target = target]]

\* handle_invite_response up to its first store access.  The `guest` it is
\* given is the row route_message read.
handle_invite_response(w, l) ==
    IF l.guest.status = "expired" THEN Return(w, l, "expired")
    ELSE IF l.msg.yes THEN Goto(w, [l EXCEPT !.n = 1], "ir_update")
    ELSE IF l.msg.no THEN Goto(w, [l EXCEPT !.n = 0], "ir_update")
    ELSE IF l.msg.llm = "yes" THEN Goto(w, [l EXCEPT !.n = 1], "ir_update")
    ELSE IF l.msg.llm = "no" THEN Goto(w, [l EXCEPT !.n = 0], "ir_update")
    ELSE Return(w, l, "reprompt_rsvp")

\* A name collection that takes any text for the name.
handle_name_collection_guessing(w, l) == Goto(w, l, "nc_update")

\* handle_name_collection up to its first store access.
handle_name_collection(w, l) ==
    IF l.msg.name \/ l.msg.llm = "name" THEN Goto(w, l, "nc_update")
    ELSE Return(w, l, "invalid_name")

\* handle_instagram_collection up to its first store access.
handle_instagram_collection(w, l) ==
    IF l.msg.skip THEN Goto(w, l, "ig_upsert_skip")
    ELSE IF l.msg.handle THEN Goto(w, l, "ig_update")
    ELSE IF l.msg.llm = "skip" THEN Goto(w, l, "ig_upsert_skip")
    ELSE IF l.msg.llm = "handle" THEN Goto(w, l, "ig_update")
    ELSE Return(w, l, "reprompt_handle")

\* handle_plus_one_offer up to its first store access.
handle_plus_one_offer(w, l) ==
    IF l.guest.quota_used >= 2 THEN Goto(w, l, "po_upsert_closed")
    ELSE IF l.msg.vcard # NoPhone THEN EnterContactSubmission(w, l, l.msg.vcard)
    ELSE IF l.msg.yes THEN Goto(w, l, "po_upsert_yes")
    ELSE IF l.msg.no THEN Goto(w, l, "po_upsert_no")
    ELSE IF l.msg.phone # NoPhone THEN EnterContactSubmission(w, l, l.msg.phone)
    ELSE IF l.msg.llm = "yes" THEN Goto(w, l, "po_upsert_yes")
    ELSE IF l.msg.llm = "no" THEN Goto(w, l, "po_upsert_no")
    ELSE IF l.msg.llm = "contact" /\ l.msg.llm_phone # NoPhone
         THEN EnterContactSubmission(w, l, l.msg.llm_phone)
    ELSE Return(w, l, "reprompt_plus_one")

\* The idle branch of route_message up to its first store access.
route_idle(w, l) ==
    IF SubmittedPhone(l.msg) # NoPhone
    THEN EnterContactSubmission(w, l, SubmittedPhone(l.msg))
    ELSE IF l.msg.llm = "escalate" THEN Goto(w, l, "esc_upsert")
    ELSE IF l.msg.llm = "answer" THEN Return(w, l, "llm_answer")
    ELSE Return(w, l, "fallback")

\* route_message, `creation_state = get_host_event_creation_state(phone)` and
\* the branches decided by it, by the text and by is_host.
route_creation(w, l) ==
    LET creation_state == w.creation[l.phone]
    IN  IF creation_state.state \notin {"none", "idle"}
        THEN Goto(w, l, "creation_read")
        ELSE IF l.msg.create THEN Goto(w, l, "creation_start")
        ELSE IF l.phone = HostPhone THEN Goto(w, l, "host_state")
        ELSE Goto(w, l, "route_guest")

\* route_message, `guest = db.get_guest_by_phone(...)`.
route_guest(w, l) ==
    LET guest == w.guests[l.phone]
    IN  IF guest.status = "none" THEN Return(w, l, "not_on_list")
        ELSE IF guest.status = "expired" THEN Return(w, l, "expired")
        ELSE Goto(w, [l EXCEPT !.guest = guest], "route_state")

\* route_message without the FAQ check ahead of the dispatch on the state.
route_state_without_faq(w, l) ==
    LET state_record == w.conv[l.phone]
        state == IF state_record.state = "none" THEN "idle" ELSE state_record.state
        l1 == [l EXCEPT !.state = state]
    IN  CASE state = "waiting_for_response" -> handle_invite_response(w, l1)
          [] state = "waiting_for_name" -> handle_name_collection(w, l1)
          [] state = "waiting_for_instagram" -> handle_instagram_collection(w, l1)
          [] state = "waiting_for_plus_one" -> handle_plus_one_offer(w, l1)
          [] state = "waiting_for_contact" ->
                 EnterContactSubmission(w, l1, SubmittedPhone(l1.msg))
          [] state = "idle" -> route_idle(w, l1)
          [] OTHER -> Goto(w, l1, "us_upsert")

\* route_message, `state_record = db.get_conversation_state(...)`, the FAQ
\* check and the dispatch on the state.
route_state(w, l) ==
    LET state_record == w.conv[l.phone]
        state == IF state_record.state = "none" THEN "idle" ELSE state_record.state
        l1 == [l EXCEPT !.state = state]
    IN  IF l.msg.faq THEN Return(w, l1, "faq")
        ELSE CASE state = "waiting_for_response" -> handle_invite_response(w, l1)
               [] state = "waiting_for_name" -> handle_name_collection(w, l1)
               [] state = "waiting_for_instagram" -> handle_instagram_collection(w, l1)
               [] state = "waiting_for_plus_one" -> handle_plus_one_offer(w, l1)
               [] state = "waiting_for_contact" ->
                      EnterContactSubmission(w, l1, SubmittedPhone(l1.msg))
               [] state = "idle" -> route_idle(w, l1)
               [] OTHER -> Goto(w, l1, "us_upsert")

\* The store accesses of route_message itself.
route_message_step(w, l) ==
    CASE l.pc = "route_creation" -> route_creation(w, l)
      [] l.pc = "route_guest" -> route_guest(w, l)
      [] l.pc = "route_state" -> route_state(w, l)
      [] l.pc = "esc_upsert" ->
             \* _escalate_to_host
             Return(upsert_conversation_state(w, HostPhone, "answering_guest_question",
                        Ctx("guest_phone", l.phone) \cup Ctx("question", 1)),
                    l, "checking")
      [] l.pc = "us_upsert" ->
             \* handle_unknown_state
             Return(upsert_conversation_state(w, l.phone, "idle", Ctx("error", 1)),
                    l, "start_over")

\* The store accesses of handle_invite_response, handle_name_collection,
\* handle_instagram_collection and handle_plus_one_offer.
onboarding_step(w, l) ==
    CASE l.pc = "ir_update" ->
             LET r == update_guest(w, l.phone,
                        [status |-> IF l.n = 1 THEN "confirmed" ELSE "declined"])
             IN  IF r.aborted THEN Raise(w, l) ELSE Goto(r.w, l, "ir_upsert")
      [] l.pc = "ir_upsert" ->
             IF l.n = 1
             THEN Return(upsert_conversation_state(w, l.phone, "waiting_for_name",
                             Ctx("accepted", 1)), l, "accepted_ask_name")
             ELSE Return(upsert_conversation_state(w, l.phone, "idle",
                             Ctx("declined", 1)), l, "declined")
      [] l.pc = "nc_update" ->
             LET r == update_guest(w, l.phone, [name |-> TRUE])
             IN  IF r.aborted THEN Raise(w, l) ELSE Goto(r.w, l, "nc_upsert")
      [] l.pc = "nc_upsert" ->
             Return(upsert_conversation_state(w, l.phone, "waiting_for_instagram",
                        Ctx("name_provided", 1)), l, "ask_instagram")
      [] l.pc = "ig_upsert_skip" ->
             Return(upsert_conversation_state(w, l.phone, "waiting_for_plus_one",
                        Ctx("instagram_skipped", 1)), l, "offer_plus_one")
      [] l.pc = "ig_update" ->
             LET r == update_guest(w, l.phone, [instagram |-> TRUE])
             IN  IF r.aborted THEN Raise(w, l) ELSE Goto(r.w, l, "ig_upsert")
      [] l.pc = "ig_upsert" ->
             Return(upsert_conversation_state(w, l.phone, "waiting_for_plus_one",
                        Ctx("instagram", 1)), l, "offer_plus_one")
      [] l.pc = "po_upsert_closed" ->
             Return(upsert_conversation_state(w, l.phone, "idle",
                        Ctx("plus_one_expired", 1)), l, "window_closed")
      [] l.pc = "po_upsert_yes" ->
             Return(upsert_conversation_state(w, l.phone, "waiting_for_contact",
                        Ctx("wants_plus_one", 1)), l, "plus_one_accepted")
      [] l.pc = "po_upsert_no" ->
             Return(upsert_conversation_state(w, l.phone, "idle",
                        Ctx("declined_plus_one", 1)), l, "plus_one_declined")

\* ------------------------------------------------------------ send_invite
\* send_invite(event_id, to_phone, invited_by_phone) from "Ensure guest record
\* exists" on: the row is created if missing and the conversation state of
\* the invitee is set to waiting_for_response.  l.target is to_phone; a +1
\* invite names the sender as inviter, a host invite nobody.
send_invite_step(w, l) ==
    CASE l.pc = "si_existing" ->
             IF w.guests[l.target].status = "none" THEN Goto(w, l, "si_create")
             ELSE Goto(w, l, "si_upsert")
      [] l.pc = "si_create" ->
             LET r == create_guest(w, l.target,
                        IF l.phone = HostPhone THEN NoPhone ELSE l.phone)
             IN  IF ~r.aborted THEN Goto(r.w, l, "si_upsert")
                 \* handle_send_invites catches and reports the exception
                 ELSE IF l.ret = "hi_done" THEN Return(w, l, "invite_errors")
                 ELSE Raise(w, l)
      [] l.pc = "si_upsert" ->
             LET w1 == upsert_conversation_state(w, l.target, "waiting_for_response",
                           Ctx("invite_sent_at", 1))
             IN  IF l.ret = "hi_done" THEN Return(w1, l, "invites_sent")
                 ELSE Goto(w1, l, l.ret)

\* ------------------------------------------------------------ use_quota
\* Database.use_quota, the SELECT and the checks on what it read.  The sqlite3
\* module opens the transaction at the first INSERT/UPDATE, so the SELECT
\* takes no lock that outlives it.  The ValueError is caught by
\* handle_contact_submission, which answers with its text.
use_quota_select(w, l) ==
    LET guest == w.guests[l.phone]
    IN  IF guest.status = "none" THEN Return(w, l, "Guest not found")
        ELSE IF guest.status # "confirmed"
             THEN Return(w, l, "Only confirmed guests can invite")
        ELSE IF guest.quota_used >= 1 THEN Return(w, l, "Quota already used")
        ELSE Goto(w, l, "uq_write")

\* use_quota without the rollback: the UPDATE of the inviter is kept when the
\* INSERT of the invitee fails.
use_quota_write_no_rollback(w, l) ==
    LET ins == create_guest(w, l.target, l.phone)
        upd == [ins.w EXCEPT !.guests[l.phone].quota_used = 1]
    IN  IF ins.aborted THEN Raise(upd, l)
        ELSE Goto(upd, [l EXCEPT !.ret = "cs_reread"], "si_existing")

\* Database.use_quota, the INSERT of the invitee and the UPDATE of the
\* inviter, committed together; a failing INSERT rolls the transaction back
\* and its IntegrityError leaves route_message.
use_quota_write(w, l) ==
    LET ins == create_guest(w, l.target, l.phone)
        upd == [ins.w EXCEPT !.guests[l.phone].quota_used = 1]
    IN  IF ins.aborted THEN Raise(w, l)
        ELSE Goto(upd, [l EXCEPT !.ret = "cs_reread"], "si_existing")

use_quota_step(w, l) ==
    CASE l.pc = "uq_select" -> use_quota_select(w, l)
      [] l.pc = "uq_write" -> use_quota_write(w, l)

\* Database.use_quota(guest_id, invited_phone) called alone on store w: at
\* its return the locals are at "si_existing" when it returned the new id
\* and at "done" when it raised.
use_quota(w, guest_id, invited_phone) ==
    LET call == [IdleLocal EXCEPT !.pc = "uq_select", !.phone = guest_id,
                                  !.target = invited_phone]
        read == use_quota_select(w, call)
    IN  IF read.l.pc = "uq_write" THEN use_quota_write(read.w, read.l) ELSE read

\* ------------------------------------------------------------ handle_contact_submission
contact_submission_step(w, l) ==
    CASE l.pc = "cs_can_invite" ->
             LET reason == can_invite_plus_one(w, l.phone)
             IN  IF reason # "OK"
                 THEN Goto(w, [l EXCEPT !.n = ReasonCode(reason)], "cs_upsert_fail")
                 ELSE IF l.target = NoPhone THEN Goto(w, l, "cs_retry_read")
                 ELSE IF ~l.msg.normalizable THEN Return(w, l, "invalid_phone")
                 ELSE Goto(w, l, "cs_existing")
      [] l.pc = "cs_upsert_fail" ->
             Return(upsert_conversation_state(w, l.phone, "idle",
                        Ctx("quota_check_failed", l.n)), l, "quota_exceeded")
      [] l.pc = "cs_retry_read" ->
             Goto(w, [l EXCEPT !.n = CtxGet(w.conv[l.phone].context, "retry_count", 0)],
                  "cs_retry_write")
      [] l.pc = "cs_retry_write" ->
             Return(upsert_conversation_state(w, l.phone, "waiting_for_contact",
                        Ctx("retry_count", l.n + 1)), l, "invalid_phone")
      [] l.pc = "cs_existing" ->
             LET existing == w.guests[l.target]
             IN  IF existing.status = "expired" THEN Goto(w, l, "ri_can_invite")
                 ELSE IF existing.status # "none" THEN Return(w, l, "already_invited")
                 ELSE Goto(w, l, "uq_select")
      [] l.pc = "cs_reread" ->
             LET updated_guest == w.guests[l.phone]
             IN  Goto(w, [l EXCEPT !.reply = IF updated_guest.quota_used < 2
                                             THEN "invite_sent_one_more"
                                             ELSE "invite_sent"],
                      "cs_upsert_idle")
      [] l.pc = "cs_upsert_idle" ->
             Return(upsert_conversation_state(w, l.phone, "idle",
                        Ctx("invited_plus_one", l.target)), l, l.reply)

\* ------------------------------------------------------------ _reinvite_expired_guest
\* `inviter` is the row route_message read at the start of the call.
reinvite_expired_guest_step(w, l) ==
    CASE l.pc = "ri_can_invite" ->
             LET reason == can_invite_plus_one(w, l.phone)
             IN  IF reason # "OK"
                 THEN Goto(w, [l EXCEPT !.n = ReasonCode(reason)], "ri_upsert_fail")
                 ELSE Goto(w, l, "ri_update_guest")
      [] l.pc = "ri_upsert_fail" ->
             Return(upsert_conversation_state(w, l.phone, "idle",
                        Ctx("quota_check_failed", l.n)), l, "quota_exceeded")
      [] l.pc = "ri_update_guest" ->
             LET r == update_guest(w, l.target,
                        [status |-> "pending", invited_by_phone |-> l.phone,
                         invited_at |-> w.now])
             IN  IF r.aborted THEN Raise(w, l) ELSE Goto(r.w, l, "ri_update_quota")
      [] l.pc = "ri_update_quota" ->
             LET r == update_guest(w, l.phone, [quota_used |-> l.guest.quota_used + 1])
             IN  IF r.aborted THEN Raise(w, l)
                 ELSE Goto(r.w, [l EXCEPT !.ret = "ri_reread"], "si_existing")
      [] l.pc = "ri_reread" ->
             LET updated_inviter == w.guests[l.phone]
             IN  Goto(w, [l EXCEPT !.reply = IF updated_inviter.quota_used < 2
                                             THEN "invite_sent_one_more"
                                             ELSE "invite_sent"],
                      "ri_upsert_idle")
      [] l.pc = "ri_upsert_idle" ->
             Return(upsert_conversation_state(w, l.phone, "idle",
                        Ctx("invited_plus_one", l.target)), l, l.reply)

\* ------------------------------------------------------------ event_creation
\* The rows with event_id = 0 keep the prompt a sender is at; the collected
\* answers (name, date, ...) are not modelled.
NextCreationState(state) ==
    CASE state = "creating_event_name" -> "creating_event_date"
      [] state = "creating_event_date" -> "creating_event_time"
      [] state = "creating_event_time" -> "creating_event_drop_time"
      [] state = "creating_event_drop_time" -> "creating_event_rules"
      [] OTHER -> "creating_event_rules"

set_host_event_creation_state(w, phone, state) ==
    [w EXCEPT !.creation[phone] = [state |-> state, context |-> EmptyCtx]]

event_creation_step(w, l) ==
    CASE l.pc = "creation_start" ->
             \* start_event_creation
             Return(set_host_event_creation_state(w, l.phone, "creating_event_name"),
                    l, "creation_prompt")
      [] l.pc = "creation_read" ->
             \* handle_event_creation_message up to its write
             LET state == w.creation[l.phone].state
                 l1 == [l EXCEPT !.state = state]
             IN  IF state = "none" THEN Return(w, l1, "no_creation")
                 ELSE IF l.msg.cancel THEN Goto(w, l1, "creation_clear")
                 ELSE IF state = "idle" THEN Return(w, l1, "creation_start_over")
                 ELSE IF state = "creating_event_rules" /\ l.msg.done
                      THEN Goto(w, l1, "creation_create_event")
                 ELSE IF l.msg.valid THEN Goto(w, l1, "creation_write")
                 ELSE Return(w, l1, "creation_reprompt")
      [] l.pc = "creation_write" ->
             Return(set_host_event_creation_state(w, l.phone, NextCreationState(l.state)),
                    l, "creation_next")
      [] l.pc = "creation_create_event" ->
             \* create_event_from_context: db.create_event; the new event is
             \* the latest, so it is the active one from now on
             Goto([w EXCEPT !.active = w.active + 1], [l EXCEPT !.reply = "event_created"],
                  "creation_clear")
      [] l.pc = "creation_clear" ->
             \* clear_host_event_creation_state
             Return(set_host_event_creation_state(w, l.phone, "idle"), l,
                    IF l.reply = "event_created" THEN l.reply ELSE "creation_cancelled")

\* ------------------------------------------------------------ host_commands
\* handle_host_message and handle_send_invites for one phone; the commands
\* that only read the store (list, stats, search, graph) and the location
\* drop answer without changing the guests or the conversation states.
host_step(w, l) ==
    CASE l.pc = "host_state" ->
             LET host_state == w.conv[HostPhone]
             IN  IF host_state.state = "answering_guest_question"
                 THEN Goto(w, [l EXCEPT !.target =
                                  CtxGet(host_state.context, "guest_phone", NoPhone)],
                           "hq_upsert")
                 ELSE Goto(w, l, "host_creation")
      [] l.pc = "hq_upsert" ->
             \* _handle_guest_question_reply: the state is cleared and the text
             \* is sent to l.target, the guest_phone of the context.
             Return(upsert_conversation_state(w, HostPhone, "idle", EmptyCtx), l,
                    IF l.target = NoPhone THEN "state_cleared" ELSE "sent_to_guest")
      [] l.pc = "host_creation" ->
             LET creation_state == w.creation[l.phone]
             IN  IF creation_state.state \notin {"none", "idle"}
                 THEN Goto(w, l, "creation_read")
                 ELSE IF SubmittedPhone(l.msg) # NoPhone
                      THEN Goto(w, [l EXCEPT !.target = SubmittedPhone(l.msg),
                                             !.ret = "hi_done"], "hi_existing")
                 ELSE Return(w, l, "host_other")
      [] l.pc = "hi_existing" ->
             LET existing == w.guests[l.target]
             IN  IF existing.status = "expired" THEN Goto(w, l, "hi_update")
                 ELSE IF existing.status # "none" THEN Return(w, l, "already_invited")
                 ELSE Goto(w, l, "si_existing")
      [] l.pc = "hi_update" ->
             LET r == update_guest(w, l.target,
                        [status |-> "pending", invited_by_phone |-> NoPhone,
                         invited_at |-> w.now])
             IN  IF r.aborted THEN Return(w, l, "invite_errors")
                 ELSE Goto(r.w, l, "si_existing")

\* ------------------------------------------------------------ one step, one call
RoutePcs == {"route_creation", "route_guest", "route_state", "esc_upsert", "us_upsert"}
OnboardingPcs ==
    {"ir_update", "ir_upsert", "nc_update", "nc_upsert", "ig_upsert_skip",
     "ig_update", "ig_upsert", "po_upsert_closed", "po_upsert_yes", "po_upsert_no"}
ContactPcs ==
    {"cs_can_invite", "cs_upsert_fail", "cs_retry_read", "cs_retry_write",
     "cs_existing", "cs_reread", "cs_upsert_idle"}
QuotaPcs == {"uq_select", "uq_write"}
ReinvitePcs ==
    {"ri_can_invite", "ri_upsert_fail", "ri_update_guest", "ri_update_quota",
     "ri_reread", "ri_upsert_idle"}
InvitePcs == {"si_existing", "si_create", "si_upsert"}
CreationPcs ==
    {"creation_start", "creation_read", "creation_write", "creation_create_event",
     "creation_clear"}
HostPcs == {"host_state", "hq_upsert", "host_creation", "hi_existing", "hi_update"}

\* The next store access of a running call.
HandlerStep(w, l) ==
    CASE l.pc \in RoutePcs -> route_message_step(w, l)
      [] l.pc \in OnboardingPcs -> onboarding_step(w, l)
      [] l.pc \in ContactPcs -> contact_submission_step(w, l)
      [] l.pc \in QuotaPcs -> use_quota_step(w, l)
      [] l.pc \in ReinvitePcs -> reinvite_expired_guest_step(w, l)
      [] l.pc \in InvitePcs -> send_invite_step(w, l)
      [] l.pc \in CreationPcs -> event_creation_step(w, l)
      [] l.pc \in HostPcs -> host_step(w, l)

\* A call running alone from configuration c to its return.
RECURSIVE RunFrom(_)
RunFrom(c) == IF c.l.pc = "done" THEN c ELSE RunFrom(HandlerStep(c.w, c.l))

\* route_message(phone, text) running alone on store w: the store it leaves
\* and the locals at its return (the reply among them).
Run(w, phone, msg) == RunFrom([w |-> w, l |-> StartLocal(phone, msg)])

\* ------------------------------------------------------------ expiration_checker
ONBOARDING_STATES == {"waiting_for_name", "waiting_for_instagram"}

\* Database.get_guests(event_id, status): the phones of the rows with that
\* status, ORDER BY invited_at (rows invited in the same second in id order).
\* The guests belong to event 1; any later event has none.
RECURSIVE SortByInvitedAt(_, _)
SortByInvitedAt(guests, S) ==
    IF S = {} THEN <<>>
    ELSE LET first == CHOOSE p \in S : \A q \in S :
                          \/ guests[p].invited_at < guests[q].invited_at
                          \/ guests[p].invited_at = guests[q].invited_at /\ p <= q
         IN  <<first>> \o SortByInvitedAt(guests, S \ {first})

get_guests(w, status) ==
    IF w.active # 1 THEN <<>>
    ELSE SortByInvitedAt(w.guests, {p \in Phones : w.guests[p].status = status})

\* The locals of the sweeper (run_expiration_checks called by the poll loop):
\*   pc     the next store access ("idle": between two sweeps)
\*   now    `now` of the running check
\*   queue  the guests of the running loop not yet handled, by phone
\*   rows   the rows as get_guests returned them
\*   state  `state` of check_plus_one_expirations
\*   fresh  `fresh_guest` of check_invite_expirations
\*   n      `inviter['quota_used']` of _refund_inviter
\*   rejected  the last sweep ended a check on an exception: the store
\*             refused one of its writes
\*   sent   the texts _send_message has sent in this sweep, in order, each
\*          as <<phone, kind>>
NoRows == [p \in Phones |-> NoGuest]
IdleSweep ==
    [pc |-> "idle", now |-> 0, queue |-> <<>>, rows |-> NoRows, state |-> "none",
     fresh |-> NoGuest, n |-> 0, rejected |-> FALSE, sent |-> <<>>]

\* _send_message(phone, text): the text goes out, best effort.
SendMessage(s, phone, kind) == [s EXCEPT !.sent = Append(s.sent, <<phone, kind>>)]

\* run_expiration_checks has returned.
SweepDone(w, s) ==
    [w |-> w, l |-> [IdleSweep EXCEPT !.rejected = s.rejected, !.sent = s.sent]]

\* check_invite_expirations, the loop header: on to the first queued guest
\* invited since the feature was deployed, or on to the second check.
RECURSIVE InviteLoop(_, _)
InviteLoop(w, s) ==
    IF s.queue = <<>> THEN [w |-> w, l |-> [s EXCEPT !.pc = "cp_list"]]
    ELSE IF s.rows[Head(s.queue)].invited_at < FEATURE_DEPLOY_TIME
         THEN InviteLoop(w, [s EXCEPT !.queue = Tail(s.queue)])
    ELSE [w |-> w, l |-> [s EXCEPT !.pc = "ci_state"]]

\* `break` for `continue`: the loop is left after one guest.
InviteBreak(w, s) == [w |-> w, l |-> [s EXCEPT !.pc = "cp_list", !.queue = <<>>]]

InviteContinue(w, s) == InviteLoop(w, [s EXCEPT !.queue = Tail(s.queue)])

\* An exception leaves check_invite_expirations; run_expiration_checks
\* swallows it and goes on to the second check.
InviteRaise(w, s) ==
    [w |-> w, l |-> [s EXCEPT !.pc = "cp_list", !.queue = <<>>, !.rejected = TRUE]]

\* check_invite_expirations expiring only after the hour, not at it.
check_invite_expirations_after_the_hour(w, s) ==
    LET g == Head(s.queue) IN
    CASE s.pc = "ci_list" ->
             InviteLoop(w, [s EXCEPT !.now = w.now, !.rows = w.guests,
                                     !.queue = get_guests(w, "pending")])
      [] s.pc = "ci_state" ->
             LET state_record == w.conv[g]
                 elapsed == s.now - s.rows[g].invited_at
             IN  IF state_record.state # "waiting_for_response" THEN InviteContinue(w, s)
                 ELSE IF elapsed > INVITE_EXPIRE_SECONDS
                      THEN [w |-> w, l |-> [s EXCEPT !.pc = "ci_fresh"]]
                 ELSE IF elapsed >= INVITE_WARNING_SECONDS
                         /\ ~CtxHas(state_record.context, "invite_warning_sent")
                      THEN [w |-> w, l |-> [s EXCEPT !.pc = "ci_warn"]]
                 ELSE InviteContinue(w, s)
      [] s.pc = "ci_fresh" ->
             LET fresh_guest == w.guests[g]
             IN  IF fresh_guest.status # "pending" THEN InviteContinue(w, s)
                 ELSE [w |-> w, l |-> [s EXCEPT !.pc = "ci_update", !.fresh = fresh_guest]]
      [] s.pc = "ci_update" ->
             LET r == update_guest(w, g, [status |-> "expired"])
             IN  IF r.aborted THEN InviteRaise(w, s)
                 ELSE [w |-> r.w, l |-> [s EXCEPT !.pc = "ci_upsert"]]
      [] s.pc = "ci_upsert" ->
             LET w1 == upsert_conversation_state(w, g, "idle", Ctx("expired", 1))
                 s1 == SendMessage(s, g, "invite_expired")
             IN  IF s.fresh.invited_by_phone = NoPhone THEN InviteContinue(w1, s1)
                 ELSE [w |-> w1, l |-> [s1 EXCEPT !.pc = "ci_refund_read"]]
      [] s.pc = "ci_refund_read" ->
             \* _refund_inviter
             LET inviter == w.guests[s.fresh.invited_by_phone]
             IN  IF inviter.status = "none" \/ inviter.quota_used <= 0
                 THEN InviteContinue(w, s)
                 ELSE [w |-> w, l |-> [s EXCEPT !.pc = "ci_refund_write",
                                                !.n = inviter.quota_used]]
      [] s.pc = "ci_refund_write" ->
             LET r == update_guest(w, s.fresh.invited_by_phone, [quota_used |-> s.n - 1])
             IN  IF r.aborted THEN InviteRaise(w, s)
                 ELSE InviteContinue(r.w,
                          SendMessage(s, s.fresh.invited_by_phone, "slot_refunded"))
      [] s.pc = "ci_warn" ->
             InviteContinue(
                 merge_conversation_context(w, g, Ctx("invite_warning_sent", 1)),
                 SendMessage(s, g, "invite_warning"))

\* check_invite_expirations warning without a look at the flag.
check_invite_expirations_warning_again(w, s) ==
    LET g == Head(s.queue) IN
    CASE s.pc = "ci_list" ->
             InviteLoop(w, [s EXCEPT !.now = w.now, !.rows = w.guests,
                                     !.queue = get_guests(w, "pending")])
      [] s.pc = "ci_state" ->
             LET state_record == w.conv[g]
                 elapsed == s.now - s.rows[g].invited_at
             IN  IF state_record.state # "waiting_for_response" THEN InviteContinue(w, s)
                 ELSE IF elapsed >= INVITE_EXPIRE_SECONDS
                      THEN [w |-> w, l |-> [s EXCEPT !.pc = "ci_fresh"]]
                 ELSE IF elapsed >= INVITE_WARNING_SECONDS
                      THEN [w |-> w, l |-> [s EXCEPT !.pc = "ci_warn"]]
                 ELSE InviteContinue(w, s)
      [] s.pc = "ci_fresh" ->
             LET fresh_guest == w.guests[g]
             IN  IF fresh_guest.status # "pending" THEN InviteContinue(w, s)
                 ELSE [w |-> w, l |-> [s EXCEPT !.pc = "ci_update", !.fresh = fresh_guest]]
      [] s.pc = "ci_update" ->
             LET r == update_guest(w, g, [status |-> "expired"])
             IN  IF r.aborted THEN InviteRaise(w, s)
                 ELSE [w |-> r.w, l |-> [s EXCEPT !.pc = "ci_upsert"]]
      [] s.pc = "ci_upsert" ->
             LET w1 == upsert_conversation_state(w, g, "idle", Ctx("expired", 1))
                 s1 == SendMessage(s, g, "invite_expired")
             IN  IF s.fresh.invited_by_phone = NoPhone THEN InviteContinue(w1, s1)
                 ELSE [w |-> w1, l |-> [s1 EXCEPT !.pc = "ci_refund_read"]]
      [] s.pc = "ci_refund_read" ->
             \* _refund_inviter
             LET inviter == w.guests[s.fresh.invited_by_phone]
             IN  IF inviter.status = "none" \/ inviter.quota_used <= 0
                 THEN InviteContinue(w, s)
                 ELSE [w |-> w, l |-> [s EXCEPT !.pc = "ci_refund_write",
                                                !.n = inviter.quota_used]]
      [] s.pc = "ci_refund_write" ->
             LET r == update_guest(w, s.fresh.invited_by_phone, [quota_used |-> s.n - 1])
             IN  IF r.aborted THEN InviteRaise(w, s)
                 ELSE InviteContinue(r.w,
                          SendMessage(s, s.fresh.invited_by_phone, "slot_refunded"))
      [] s.pc = "ci_warn" ->
             InviteContinue(
                 merge_conversation_context(w, g, Ctx("invite_warning_sent", 1)),
                 SendMessage(s, g, "invite_warning"))

check_invite_expirations_step(w, s) ==
    LET g == Head(s.queue) IN
    CASE s.pc = "ci_list" ->
             InviteLoop(w, [s EXCEPT !.now = w.now, !.rows = w.guests,
                                     !.queue = get_guests(w, "pending")])
      [] s.pc = "ci_state" ->
             LET state_record == w.conv[g]
                 elapsed == s.now - s.rows[g].invited_at
             IN  IF state_record.state # "waiting_for_response" THEN InviteContinue(w, s)
                 ELSE IF elapsed >= INVITE_EXPIRE_SECONDS
                      THEN [w |-> w, l |-> [s EXCEPT !.pc = "ci_fresh"]]
                 ELSE IF elapsed >= INVITE_WARNING_SECONDS
                         /\ ~CtxHas(state_record.context, "invite_warning_sent")
                      THEN [w |-> w, l |-> [s EXCEPT !.pc = "ci_warn"]]
                 ELSE InviteContinue(w, s)
      [] s.pc = "ci_fresh" ->
             LET fresh_guest == w.guests[g]
             IN  IF fresh_guest.status # "pending" THEN InviteContinue(w, s)
                 ELSE [w |-> w, l |-> [s EXCEPT !.pc = "ci_update", !.fresh = fresh_guest]]
      [] s.pc = "ci_update" ->
             LET r == update_guest(w, g, [status |-> "expired"])
             IN  IF r.aborted THEN InviteRaise(w, s)
                 ELSE [w |-> r.w, l |-> [s EXCEPT !.pc = "ci_upsert"]]
      [] s.pc = "ci_upsert" ->
             LET w1 == upsert_conversation_state(w, g, "idle", Ctx("expired", 1))
                 s1 == SendMessage(s, g, "invite_expired")
             IN  IF s.fresh.invited_by_phone = NoPhone THEN InviteContinue(w1, s1)
                 ELSE [w |-> w1, l |-> [s1 EXCEPT !.pc = "ci_refund_read"]]
      [] s.pc = "ci_refund_read" ->
             \* _refund_inviter
             LET inviter == w.guests[s.fresh.invited_by_phone]
             IN  IF inviter.status = "none" \/ inviter.quota_used <= 0
                 THEN InviteContinue(w, s)
                 ELSE [w |-> w, l |-> [s EXCEPT !.pc = "ci_refund_write",
                                                !.n = inviter.quota_used]]
      [] s.pc = "ci_refund_write" ->
             LET r == update_guest(w, s.fresh.invited_by_phone, [quota_used |-> s.n - 1])
             IN  IF r.aborted THEN InviteRaise(w, s)
                 ELSE InviteContinue(r.w,
                          SendMessage(s, s.fresh.invited_by_phone, "slot_refunded"))
      [] s.pc = "ci_warn" ->
             InviteContinue(
                 merge_conversation_context(w, g, Ctx("invite_warning_sent", 1)),
                 SendMessage(s, g, "invite_warning"))

\* check_plus_one_expirations, the loop header: on to the first queued guest
\* with unused invites whose window is at least 45 minutes old, or done.
RECURSIVE PlusOneLoop(_, _)
PlusOneLoop(w, s) ==
    IF s.queue = <<>> THEN SweepDone(w, s)
    ELSE LET guest == s.rows[Head(s.queue)]
         IN  IF \/ guest.quota_used >= 2
                \/ guest.responded_at = 0
                \/ guest.responded_at < FEATURE_DEPLOY_TIME
                \/ s.now - guest.responded_at < PLUS_ONE_WARNING_SECONDS
             THEN PlusOneLoop(w, [s EXCEPT !.queue = Tail(s.queue)])
             ELSE [w |-> w, l |-> [s EXCEPT !.pc = "cp_state"]]

PlusOneContinue(w, s) == PlusOneLoop(w, [s EXCEPT !.queue = Tail(s.queue)])

\* An exception leaves check_plus_one_expirations and is swallowed.
PlusOneRaise(w, s) == SweepDone(w, [s EXCEPT !.rejected = TRUE])

check_plus_one_expirations_step(w, s) ==
    LET g == Head(s.queue) IN
    CASE s.pc = "cp_list" ->
             PlusOneLoop(w, [s EXCEPT !.now = w.now, !.rows = w.guests,
                                      !.queue = get_guests(w, "confirmed")])
      [] s.pc = "cp_state" ->
             LET state_record == w.conv[g]
                 state == IF state_record.state = "none" THEN "idle"
                          ELSE state_record.state
                 elapsed == s.now - s.rows[g].responded_at
             IN  IF elapsed >= PLUS_ONE_EXPIRE_SECONDS
                 THEN [w |-> w, l |-> [s EXCEPT !.pc = "cp_update", !.state = state]]
                 ELSE IF ~CtxHas(state_record.context, "plus_one_warning_sent")
                         /\ state \notin ONBOARDING_STATES
                      THEN [w |-> w, l |-> [s EXCEPT !.pc = "cp_warn"]]
                 ELSE PlusOneContinue(w, s)
      [] s.pc = "cp_update" ->
             LET r == update_guest(w, g, [quota_used |-> 2])
             IN  IF r.aborted THEN PlusOneRaise(w, s)
                 ELSE IF s.state \in {"waiting_for_plus_one", "waiting_for_contact", "idle"}
                      THEN [w |-> r.w, l |-> [s EXCEPT !.pc = "cp_upsert"]]
                 ELSE PlusOneContinue(r.w, s)
      [] s.pc = "cp_upsert" ->
             PlusOneContinue(
                 upsert_conversation_state(w, g, "idle", Ctx("plus_one_expired", 1)),
                 SendMessage(s, g, "plus_one_expired"))
      [] s.pc = "cp_warn" ->
             PlusOneContinue(
                 merge_conversation_context(w, g, Ctx("plus_one_warning_sent", 1)),
                 SendMessage(s, g, "plus_one_warning"))

InviteCheckPcs ==
    {"ci_list", "ci_state", "ci_fresh", "ci_update", "ci_upsert", "ci_refund_read",
     "ci_refund_write", "ci_warn"}
PlusOneCheckPcs == {"cp_list", "cp_state", "cp_update", "cp_upsert", "cp_warn"}

\* The next store access of a running sweep.
SweepStep(w, s) ==
    IF s.pc \in InviteCheckPcs THEN check_invite_expirations_step(w, s)
    ELSE check_plus_one_expirations_step(w, s)

RECURSIVE RunSweepFrom(_)
RunSweepFrom(c) == IF c.l.pc = "idle" THEN c ELSE RunSweepFrom(SweepStep(c.w, c.l))

\* run_expiration_checks running alone on store w: the store it leaves and
\* the locals at its return.
StartSweep == [IdleSweep EXCEPT !.pc = "ci_list"]
RunSweep(w) == RunSweepFrom([w |-> w, l |-> StartSweep])
run_expiration_checks(w) == RunSweep(w).w

\* ------------------------------------------------------------ Instagram tables
\* An Instagram handle: the account (guest p declares account p) and whether
\* the text has upper-case letters.  str.lower() keeps the account.
NoHandle == [name |-> 0, upper |-> FALSE]
Handles == [name : Phones, upper : BOOLEAN]
Lower(handle) == [handle EXCEPT !.upper = FALSE]

\* The handle guest p types: guests with an odd number use capitals.
TypedHandle(p) == [name |-> p, upper |-> p % 2 = 1]

\* The lists InstagramBrowser.scrape_following can return, lower-cased by the
\* page script: the account follows nobody on the list, guest 1 only, or
\* every guest 1..NumFollowers (itself included).
Listings ==
    {{}, {Lower(TypedHandle(1))}, {Lower(TypedHandle(p)) : p \in 1..NumFollowers}}

\* ig : the three Instagram tables of event 1, the job queue of the worker,
\* and what the worker has handed to the transport
\*   follow_status       ig_follow_status rows, by guest (status "none": no
\*                       row; a time of 0 is NULL)
\*   following           ig_following rows, as <<guest, follows_handle>>
\*   notifications_sent  how many ig_notifications_sent rows there are, by
\*                       <<notified, about>>
\*   queue               _job_queue; a job without 'type' is of type "follow"
\*   notices             how many "just got on the list" texts
\*                       _send_notification was given, by <<notified, about>>
\*   notified            the list the last check_mutual_connections returned
\*   about               the guest that check was run for
NoFollowStatus ==
    [status |-> "none", handle |-> NoHandle, followed_at |-> 0, scraped_at |-> 0,
     following_count |-> 0]

NoTables ==
    [follow_status |-> [p \in Phones |-> NoFollowStatus],
     following |-> {},
     notifications_sent |-> [pair \in Phones \X Phones |-> 0],
     queue |-> <<>>,
     notices |-> [pair \in Phones \X Phones |-> 0],
     notified |-> <<>>,
     about |-> NoPhone]

\* Database.upsert_ig_follow_status: a new row takes every value; on
\* conflict the handle stays, status and following_count are overwritten
\* (following_count defaults to 0), and a time is overwritten only by a
\* value that is not NULL.
upsert_ig_follow_status(ig, guest_id, handle, status, followed_at, scraped_at, count) ==
    LET old == ig.follow_status[guest_id]
        new == IF old.status = "none"
               THEN [status |-> status, handle |-> handle,
                     followed_at |-> followed_at, scraped_at |-> scraped_at,
                     following_count |-> count]
               ELSE [old EXCEPT
                        !.status = status,
                        !.followed_at = IF followed_at # 0 THEN followed_at ELSE @,
                        !.scraped_at = IF scraped_at # 0 THEN scraped_at ELSE @,
                        !.following_count = count]
    IN  [ig EXCEPT !.follow_status[guest_id] = new]

\* Database.store_ig_following: INSERT OR IGNORE of one row per handle,
\* lower-cased; UNIQUE(event_id, guest_id, follows_handle) keeps one row per
\* guest and handle.
store_ig_following(ig, guest_id, follows_handles) ==
    [ig EXCEPT !.following = @ \cup {<<guest_id, Lower(h)>> : h \in follows_handles}]

\* find_followers_of whatever the status of the guest.
find_followers_of_any_status(w, ig, target_handle) ==
    {g \in Phones :
        /\ <<g, Lower(target_handle)>> \in ig.following
        /\ w.guests[g].status # "none"}

\* Database.find_followers_of: the guests of the event with a row in
\* ig_following for the lower-cased handle and status 'confirmed'.
find_followers_of(w, ig, target_handle) ==
    {g \in Phones :
        /\ <<g, Lower(target_handle)>> \in ig.following
        /\ w.guests[g].status = "confirmed"}

\* Database.has_notification_been_sent
has_notification_been_sent(ig, notified_guest_id, about_guest_id) ==
    ig.notifications_sent[<<notified_guest_id, about_guest_id>>] > 0

\* Database.record_notification_sent: INSERT OR IGNORE under
\* UNIQUE(event_id, notified_guest_id, about_guest_id): a second row for the
\* pair is dropped.
record_notification_sent(ig, notified_guest_id, about_guest_id) ==
    LET pair == <<notified_guest_id, about_guest_id>>
    IN  IF ig.notifications_sent[pair] > 0 THEN ig
        ELSE [ig EXCEPT !.notifications_sent[pair] = 1]

\* _send_notification(phone, msg): the text goes out, best effort.
SendNotification(ig, phone, about) ==
    [ig EXCEPT !.notices[<<phone, about>>] = @ + 1]

\* The rows of a SELECT without ORDER BY come in rowid order here; the
\* followers are taken by guest id.
RECURSIVE InIdOrder(_)
InIdOrder(S) ==
    IF S = {} THEN <<>>
    ELSE LET first == CHOOSE g \in S : \A q \in S : g <= q
         IN  <<first>> \o InIdOrder(S \ {first})

\* The loop of check_mutual_connections over `followers`, with `notified`
\* kept in ig.notified; the ledger is not consulted.
RECURSIVE NotifyEachAgain(_, _, _)
NotifyEachAgain(ig, followers, new_guest_id) ==
    IF followers = <<>> THEN ig
    ELSE LET follower_guest_id == Head(followers)
             rest == Tail(followers)
         IN  IF follower_guest_id = new_guest_id
             THEN NotifyEachAgain(ig, rest, new_guest_id)
             ELSE LET sent == SendNotification(ig, follower_guest_id, new_guest_id)
                      rec == record_notification_sent(sent, follower_guest_id,
                                                      new_guest_id)
                  IN  NotifyEachAgain(
                          [rec EXCEPT !.notified =
                              Append(@, <<follower_guest_id, new_guest_id>>)],
                          rest, new_guest_id)

\* The loop of check_mutual_connections over `followers`, with `notified`
\* kept in ig.notified.
RECURSIVE NotifyEach(_, _, _)
NotifyEach(ig, followers, new_guest_id) ==
    IF followers = <<>> THEN ig
    ELSE LET follower_guest_id == Head(followers)
             rest == Tail(followers)
         IN  IF follower_guest_id = new_guest_id
             THEN NotifyEach(ig, rest, new_guest_id)
             ELSE IF has_notification_been_sent(ig, follower_guest_id, new_guest_id)
             THEN NotifyEach(ig, rest, new_guest_id)
             ELSE LET sent == SendNotification(ig, follower_guest_id, new_guest_id)
                      rec == record_notification_sent(sent, follower_guest_id,
                                                      new_guest_id)
                  IN  NotifyEach(
                          [rec EXCEPT !.notified =
                              Append(@, <<follower_guest_id, new_guest_id>>)],
                          rest, new_guest_id)

\* check_mutual_connections(event_id, new_handle, new_guest_id): the tables
\* it leaves, its return value in `notified`.
check_mutual_connections(w, ig, new_handle, new_guest_id) ==
    LET followers == InIdOrder(find_followers_of(w, ig, new_handle))
        start == [ig EXCEPT !.notified = <<>>, !.about = new_guest_id]
    IN  IF w.guests[new_guest_id].status = "none" THEN start
        ELSE NotifyEach(start, followers, new_guest_id)

\* trigger_ig_follow_and_scrape(event_id, guest_id, handle): the row is
\* recorded pending under the normalised handle and the job is queued.
trigger_ig_follow_and_scrape(ig, guest_id, handle) ==
    LET h == Lower(handle)
        rec == upsert_ig_follow_status(ig, guest_id, h, "pending", 0, 0, 0)
        job == [type |-> "follow", guest_id |-> guest_id, handle |-> h]
    IN  [rec EXCEPT !.queue = Append(@, job)]

\* handle_instagram_collection after its last store access: the call that
\* has just returned the +1 offer for a handle (not for "skip") has queued
\* the job.
AfterReply(ig, c) ==
    IF /\ c.l.pc = "done"
       /\ c.l.reply = "offer_plus_one"
       /\ CtxHas(c.w.conv[c.l.phone].context, "instagram")
    THEN trigger_ig_follow_and_scrape(ig, c.l.phone, TypedHandle(c.l.phone))
    ELSE ig

\* What InstagramBrowser.follow_user can return.
FollowResults == {"followed", "already_following", "requested", "not_found", "error"}

\* No list: scrape_following returned None.
NoListing == {NoHandle}

\* A follow whose outcome is not written to the row.
follow_user_unrecorded(ig, job, follow_result, at) == ig

\* _process_ig_job, step 1: the follow result is recorded; on not_found and
\* on error the job returns.
follow_user_recorded(ig, job, follow_result, at) ==
    IF follow_result \in {"not_found", "error"}
    THEN upsert_ig_follow_status(ig, job.guest_id, job.handle, follow_result, 0, 0, 0)
    ELSE upsert_ig_follow_status(ig, job.guest_id, job.handle, follow_result, at, 0, 0)

\* _process_ig_job, steps 3 to 5, at clock w.now: `at` is `now` of step 1.
scrape_recorded(w, ig, job, follow_result, at, following) ==
    IF following = NoListing
    THEN upsert_ig_follow_status(ig, job.guest_id, job.handle, follow_result, 0, at, 0)
    ELSE LET stored == store_ig_following(ig, job.guest_id, following)
             scraped == upsert_ig_follow_status(stored, job.guest_id, job.handle,
                            follow_result, 0, w.now, Cardinality(following))
         IN  check_mutual_connections(w, scraped, job.handle, job.guest_id)

\* _process_ig_job(job) at clock w.now, for the answers of the browser:
\* follow -> scrape -> store -> check mutual -> notify.
process_ig_job(w, ig, job, follow_result, following) ==
    LET followed == follow_user_recorded(ig, job, follow_result, w.now)
    IN  IF follow_result \in {"not_found", "error"} THEN followed
        ELSE scrape_recorded(w, followed, job, follow_result, w.now, following)

\* A rescan that stores and records the scrape and runs no cross-reference.
process_rescan_job_without_check(w, ig, job, following) ==
    IF following = NoListing THEN ig
    ELSE upsert_ig_follow_status(store_ig_following(ig, job.guest_id, following),
             job.guest_id, job.handle, "requested", 0, w.now, Cardinality(following))

\* _process_rescan_job(job) at clock w.now, for the answer of the browser.
process_rescan_job(w, ig, job, following) ==
    IF following = NoListing THEN ig
    ELSE LET stored == store_ig_following(ig, job.guest_id, following)
             scraped == upsert_ig_follow_status(stored, job.guest_id, job.handle,
                            "requested", 0, w.now, Cardinality(following))
         IN  check_mutual_connections(w, scraped, job.handle, job.guest_id)

\* Minimum seconds after follow before attempting rescan.
RESCAN_INTERVAL == 1800

\* A selection that takes the scraped rows as well.
get_pending_rescans_scraped_too(w, ig, min_age_seconds) ==
    LET cutoff == w.now - min_age_seconds
    IN  {g \in Phones :
            /\ ig.follow_status[g].status = "requested"
            /\ ig.follow_status[g].followed_at # 0
            /\ ig.follow_status[g].followed_at < cutoff}

\* The requested and unscraped rows whatever the age of the follow.
get_pending_rescans_of_any_age(w, ig, min_age_seconds) ==
    {g \in Phones :
        /\ ig.follow_status[g].status = "requested"
        /\ ig.follow_status[g].scraped_at = 0
        /\ ig.follow_status[g].followed_at # 0}

\* Database.get_pending_rescans(min_age_seconds) at clock w.now: the guests
\* whose row is requested, not scraped, and followed before the cutoff.
get_pending_rescans(w, ig, min_age_seconds) ==
    LET cutoff == w.now - min_age_seconds
    IN  {g \in Phones :
            /\ ig.follow_status[g].status = "requested"
            /\ ig.follow_status[g].scraped_at = 0
            /\ ig.follow_status[g].followed_at # 0
            /\ ig.follow_status[g].followed_at < cutoff}

\* _queue_pending_rescans: one rescan job per row found.
RECURSIVE PutRescans(_, _)
PutRescans(ig, pending) ==
    IF pending = <<>> THEN ig
    ELSE LET g == Head(pending)
             job == [type |-> "rescan", guest_id |-> g,
                     handle |-> ig.follow_status[g].handle]
         IN  PutRescans([ig EXCEPT !.queue = Append(@, job)], Tail(pending))

queue_pending_rescans(w, ig) ==
    PutRescans(ig, InIdOrder(get_pending_rescans(w, ig, RESCAN_INTERVAL)))

\* ------------------------------------------------------------ threads of the process
\* th : the threads of one process around the worker
\*   lock           the thread holding _worker_lock (0: free)
\*   worker_thread  _worker_thread (0: None), a worker by number
\*   caller         where each calling thread is in
\*                  trigger_ig_follow_and_scrape ("idle": not called, "done":
\*                  returned)
\*   worker         the worker threads by number, in the order they were
\*                  created: pc "none" (not created), "get" (at
\*                  _job_queue.get), "follow", "scrape", "rescan" (in a job,
\*                  before that call of the browser), with the job and the
\*                  locals follow_result and now
\*   restarts       how many times the process has been started again
\*   timer          the threading.Timer of trigger_location_drop: pc "none"
\*                  (not created), "waiting" (in finished.wait), "woke"
\*                  (the wait has returned), "sending" (in send_location),
\*                  "done" (the thread has ended); `finished` is the Timer's
\*                  event; `due` the clock at which the delay has elapsed;
\*                  confirmed_guests the list send_location closes over;
\*                  cancelled_at the clock at which cancel_location_drop
\*                  returned True (0: it has not)
\*   warned, revealed   how many warning and how many location texts
\*                  send_func has been given, by guest
Callers == 1..NumCallers
NoJob == [type |-> "none", guest_id |-> NoPhone, handle |-> NoHandle]
NoWorker == [pc |-> "none", job |-> NoJob, follow_result |-> "none", now |-> 0]
NoTimer ==
    [pc |-> "none", finished |-> FALSE, due |-> 0, confirmed_guests |-> {},
     cancelled_at |-> 0]
NoThreads ==
    [lock |-> 0, worker_thread |-> 0,
     caller |-> [c \in Callers |-> "idle"],
     worker |-> [t \in Callers |-> NoWorker],
     restarts |-> 0,
     timer |-> NoTimer,
     warned |-> [p \in Phones |-> 0],
     revealed |-> [p \in Phones |-> 0]]

\* Thread.is_alive(): the thread has been started; _worker_loop does not
\* return.
is_alive(th, t) == th.worker[t].pc # "none"
Alive(th) == {t \in Callers : is_alive(th, t)}

\* The worker threads inside a job.
InJob(th) == {t \in Callers : th.worker[t].pc \in {"follow", "scrape", "rescan"}}

\* `with _worker_lock:` is entered without the lock.
enter_unlocked(th, c) == [enabled |-> TRUE, th |-> th]

\* `with _worker_lock:` is entered by thread c once the lock is free.
enter_worker_lock(th, c) ==
    [enabled |-> th.lock = 0, th |-> [th EXCEPT !.lock = c]]

\* One step of trigger_ig_follow_and_scrape(event_id, c, handle) in thread c,
\* called for guest c: the upsert, the put, then _ensure_worker: the lock,
\* the test of _worker_thread, the start of a new thread, the release.
trigger_step(ig, th, c) ==
    LET pc == th.caller[c]
        at(next) == [th EXCEPT !.caller[c] = next]
        entered == enter_worker_lock(th, c)
        t == CHOOSE n \in Callers : ~is_alive(th, n) /\ \A k \in Callers : k < n => is_alive(th, k)
        job == [type |-> "follow", guest_id |-> c, handle |-> Lower(TypedHandle(c))]
    IN  CASE pc = "idle" ->
                 [enabled |-> TRUE, th |-> at("put"),
                  ig |-> upsert_ig_follow_status(ig, c, Lower(TypedHandle(c)),
                                                 "pending", 0, 0, 0)]
          [] pc = "put" ->
                 [enabled |-> TRUE, th |-> at("lock"),
                  ig |-> [ig EXCEPT !.queue = Append(@, job)]]
          [] pc = "lock" ->
                 [enabled |-> entered.enabled,
                  th |-> [entered.th EXCEPT !.caller[c] = "test"], ig |-> ig]
          [] pc = "test" ->
                 [enabled |-> TRUE, ig |-> ig,
                  th |-> IF th.worker_thread = 0 \/ ~is_alive(th, th.worker_thread)
                         THEN at("start") ELSE at("release")]
          [] pc = "start" ->
                 [enabled |-> TRUE, ig |-> ig,
                  th |-> [th EXCEPT !.caller[c] = "release", !.worker_thread = t,
                                    !.worker[t] = [NoWorker EXCEPT !.pc = "get"]]]
          [] pc = "release" ->
                 [enabled |-> TRUE, ig |-> ig,
                  th |-> [th EXCEPT !.caller[c] = "done",
                                    !.lock = IF @ = c THEN 0 ELSE @]]
          [] OTHER -> [enabled |-> FALSE, th |-> th, ig |-> ig]

\* One step of _worker_loop in worker thread t at clock w.now, for the
\* answers of the browser: the next job is taken off the queue, or a call of
\* the browser returns and the job runs on to its next call or to its end.
worker_step(w, ig, th, t, follow_result, following) ==
    LET me == th.worker[t]
        to(l) == [th EXCEPT !.worker[t] = l]
        back == to([NoWorker EXCEPT !.pc = "get"])
    IN  CASE me.pc = "get" ->
                 IF ig.queue = <<>> THEN [enabled |-> FALSE, th |-> th, ig |-> ig]
                 ELSE LET job == Head(ig.queue)
                      IN  [enabled |-> TRUE,
                           ig |-> [ig EXCEPT !.queue = Tail(@)],
                           th |-> to([me EXCEPT !.job = job,
                                     !.pc = IF job.type = "rescan" THEN "rescan"
                                            ELSE "follow"])]
          [] me.pc = "follow" ->
                 [enabled |-> TRUE,
                  ig |-> follow_user_recorded(ig, me.job, follow_result, w.now),
                  th |-> IF follow_result \in {"not_found", "error"} THEN back
                         ELSE to([me EXCEPT !.pc = "scrape", !.now = w.now,
                                            !.follow_result = follow_result])]
          [] me.pc = "scrape" ->
                 [enabled |-> TRUE,
                  ig |-> scrape_recorded(w, ig, me.job, me.follow_result, me.now,
                                         following),
                  th |-> back]
          [] me.pc = "rescan" ->
                 [enabled |-> TRUE,
                  ig |-> process_rescan_job(w, ig, me.job, following),
                  th |-> back]
          [] OTHER -> [enabled |-> FALSE, th |-> th, ig |-> ig]

\* A worker whose thread ends when a job raises.
worker_raise_ending(th, t) ==
    [enabled |-> th.worker[t].pc \in {"follow", "scrape", "rescan"},
     th |-> [th EXCEPT !.worker[t] = NoWorker]]

\* _worker_loop in worker thread t when the job it is in raises: the
\* exception is logged, task_done is called, and the loop goes on to the next
\* _job_queue.get.
worker_raise(th, t) ==
    [enabled |-> th.worker[t].pc \in {"follow", "scrape", "rescan"},
     th |-> [th EXCEPT !.worker[t] = [NoWorker EXCEPT !.pc = "get"]]]

\* trigger_ig_follow_and_scrape called by thread c, start to return, with
\* nothing else running.
RECURSIVE TriggerFrom(_, _, _)
TriggerFrom(ig, th, c) ==
    IF th.caller[c] = "done" THEN [ig |-> ig, th |-> th]
    ELSE LET r == trigger_step(ig, th, c) IN TriggerFrom(r.ig, r.th, c)

\* _worker_loop in worker thread t when _job_queue.get times out on an empty
\* queue: _queue_pending_rescans.
worker_timeout(w, ig, th, t) ==
    [enabled |-> th.worker[t].pc = "get" /\ ig.queue = <<>>,
     ig |-> queue_pending_rescans(w, ig), th |-> th]

\* requeue_pending_jobs, called by main of poll_imessage before the loop:
\* one follow job per row still pending, and the worker is started, which
\* sweeps for the requested rows when idle.
RECURSIVE PutPending(_, _)
PutPending(ig, pending) ==
    IF pending = <<>> THEN ig
    ELSE LET g == Head(pending)
             job == [type |-> "follow", guest_id |-> g,
                     handle |-> ig.follow_status[g].handle]
         IN  PutPending([ig EXCEPT !.queue = Append(@, job)], Tail(pending))

requeue_pending_jobs(ig, th) ==
    LET pending == {g \in Phones : ig.follow_status[g].status = "pending"}
    IN  [ig |-> PutPending(ig, InIdOrder(pending)),
         th |-> [th EXCEPT !.worker_thread = 1,
                           !.worker[1] = [NoWorker EXCEPT !.pc = "get"]]]

\* The process stops and is started again: the queue and the threads are
\* gone, the tables stay, and main runs requeue_pending_jobs.
restarted(ig, th) ==
    requeue_pending_jobs([ig EXCEPT !.queue = <<>>],
                         [NoThreads EXCEPT !.caller = th.caller,
                                           !.restarts = th.restarts + 1])

\* ------------------------------------------------------------ location_drop
\* delay_seconds of trigger_location_drop (5 minutes default).
DELAY_SECONDS == 300

\* trigger_location_drop(event_id, address) at clock w.now, start to return:
\* without confirmed guests it returns an error; else the warning goes to
\* each confirmed guest and the Timer is started on send_location.
trigger_location_drop(w, th) ==
    LET confirmed_guests == {p \in Phones : w.guests[p].status = "confirmed"}
    IN  IF confirmed_guests = {} THEN th
        ELSE [th EXCEPT
                 !.warned = [p \in Phones |->
                                IF p \in confirmed_guests THEN @[p] + 1 ELSE @[p]],
                 !.timer = [NoTimer EXCEPT !.pc = "waiting",
                                           !.due = w.now + DELAY_SECONDS,
                                           !.confirmed_guests = confirmed_guests]]

\* Timer.is_alive()
timer_is_alive(th) == th.timer.pc \in {"waiting", "woke", "sending"}

\* cancel_location_drop(timer) at clock w.now: Timer.cancel sets `finished`.
cancel_location_drop(w, th) ==
    IF timer_is_alive(th)
    THEN [th EXCEPT !.timer.finished = TRUE,
                    !.timer.cancelled_at = IF @ = 0 THEN w.now ELSE @]
    ELSE th

\* A Timer whose run calls the function without a look at `finished`.
timer_run_whatever(w, th) ==
    LET timer == th.timer
    IN  CASE timer.pc = "waiting" ->
                 [enabled |-> timer.finished \/ w.now >= timer.due,
                  th |-> [th EXCEPT !.timer.pc = "woke"]]
          [] timer.pc = "woke" ->
                 [enabled |-> TRUE, th |-> [th EXCEPT !.timer.pc = "sending"]]
          [] timer.pc = "sending" ->
                 [enabled |-> TRUE,
                  th |-> [th EXCEPT
                             !.revealed = [p \in Phones |->
                                 IF p \in timer.confirmed_guests THEN @[p] + 1
                                 ELSE @[p]],
                             !.timer.pc = "done"]]
          [] OTHER -> [enabled |-> FALSE, th |-> th]

\* One step of Timer.run at clock w.now: finished.wait(interval) returns
\* when the event is set or the delay has elapsed; the function is called
\* if the event is not set; send_location gives the location text to every
\* guest of the list it closed over.
timer_run(w, th) ==
    LET timer == th.timer
    IN  CASE timer.pc = "waiting" ->
                 [enabled |-> timer.finished \/ w.now >= timer.due,
                  th |-> [th EXCEPT !.timer.pc = "woke"]]
          [] timer.pc = "woke" ->
                 [enabled |-> TRUE,
                  th |-> [th EXCEPT !.timer.pc =
                             IF timer.finished THEN "done" ELSE "sending"]]
          [] timer.pc = "sending" ->
                 [enabled |-> TRUE,
                  th |-> [th EXCEPT
                             !.revealed = [p \in Phones |->
                                 IF p \in timer.confirmed_guests THEN @[p] + 1
                                 ELSE @[p]],
                             !.timer.pc = "done"]]
          [] OTHER -> [enabled |-> FALSE, th |-> th]

\* ------------------------------------------------------------ state
VARIABLES
    guests,     \* guests of event 1, by phone (status "none": no row)
    conv,       \* conversation_state of event 1, by phone
    creation,   \* conversation_state with event_id = 0, by phone
    active,     \* id of the active event
    now,        \* the clock
    hl,         \* locals of the message-handling processes
    sw,         \* locals of the sweeper
    ig,         \* the Instagram tables and the worker's queue
    th          \* the threads of the process around the worker

vars == <<guests, conv, creation, active, now, hl, sw, ig, th>>

AllPhones == Phones \cup {HostPhone}

World == [guests |-> guests, conv |-> conv, creation |-> creation,
          active |-> active, now |-> now]

Commit(w) ==
    /\ guests' = w.guests
    /\ conv' = w.conv
    /\ creation' = w.creation
    /\ active' = w.active
    /\ now' = w.now

\* retry_count is the one counter of the store that grows without limit.
Bounded(w) == \A p \in Phones : CtxGet(w.conv[p].context, "retry_count", 0) <= MaxRetry

\* ------------------------------------------------------------ stores to start from
\* The store after setup: the event exists, nobody is invited.
World0 ==
    [guests |-> [p \in Phones |-> NoGuest], conv |-> [p \in AllPhones |-> NoConv],
     creation |-> [p \in AllPhones |-> NoConv], active |-> 1, now |-> StartTime]

\* The store after one more message handled alone, and after time has passed.
After(w, phone, msg) == Run(w, phone, msg).w
Later(w, ticks) == [w EXCEPT !.now = w.now + ticks * TickSeconds]

\* The host has invited guest 1, who has said yes, given a name, skipped the
\* Instagram handle and accepted the +1 offer: confirmed, quota_used 0,
\* waiting_for_contact.
Onboarded(w) ==
    After(After(After(After(After(w, HostPhone, MsgPhone(1)),
        1, MsgYes), 1, MsgName), 1, MsgSkip), 1, MsgYes)

\* The host has invited guest 2, who let the hour pass and was expired by the
\* sweep.
Lapsed(w) ==
    run_expiration_checks(Later(After(w, HostPhone, MsgPhone(2)), MaxTicks))

SpendWorld == Onboarded(World0)
ReinviteWorld == Onboarded(Lapsed(World0))

\* The host has invited guest 1; the sweep has warned them at 45 minutes and
\* the invite is now 60 minutes old.
AcceptWorld ==
    Later(run_expiration_checks(Later(After(World0, HostPhone, MsgPhone(1)), 3)), 1)

\* The host has invited guest 1, who has not answered yet.
InvitedWorld == After(World0, HostPhone, MsgPhone(1))

\* Guest 1 has invited guest 2, who let the hour pass and was expired.
GateWorld ==
    run_expiration_checks(Later(After(SpendWorld, 1, MsgPhone(2)), MaxTicks))

\* The host has invited the guests that answer.
RECURSIVE HostInvited(_)
HostInvited(n) ==
    IF n = 0 THEN World0 ELSE After(HostInvited(n - 1), HostPhone, MsgPhone(n))

SeqWorld == HostInvited(NumSpeakers)

Starts(w) ==
    /\ guests = w.guests
    /\ conv = w.conv
    /\ creation = w.creation
    /\ active = w.active
    /\ now = w.now
    /\ hl = [h \in Spenders \cup Handlers |-> IdleLocal]
    /\ sw = IdleSweep
    /\ ig = NoTables
    /\ th = NoThreads

\* ------------------------------------------------------------ actions
\* Time passes while no call is running: a message is handled within the 30
\* seconds process_message allows it, a sweep within the poll cycle.
Tick(horizon) ==
    /\ now < horizon
    /\ sw.pc = "idle"
    /\ \A h \in DOMAIN hl : hl[h].pc \in {"idle", "done"}
    /\ now' = now + TickSeconds
    /\ UNCHANGED <<guests, conv, creation, active, hl, sw, ig, th>>

\* handle_incoming_message for one inbound text, start to return, with
\* nothing else running (the poll loop handles one message after the other).
Message(p, m) ==
    /\ active = 1
    /\ LET c == Run(World, p, m)
       IN  Bounded(c.w) /\ Commit(c.w) /\ ig' = AfterReply(ig, c)
    /\ UNCHANGED <<hl, sw, th>>

\* run_expiration_checks, start to return, with nothing else running.  The
\* texts it sent are out of the sweeper's hands at its return.
Sweep ==
    /\ LET c == RunSweep(World)
       IN  Commit(c.w) /\ sw' = [c.l EXCEPT !.sent = <<>>]
    /\ UNCHANGED <<hl, ig, th>>

\* A message-handling process starts on an inbound text.  The processes are
\* interchangeable: they start in the order of their numbers.
Receive(h, p, m) ==
    /\ hl[h].pc = "idle"
    /\ \A k \in DOMAIN hl : k < h => hl[k].pc # "idle"
    /\ hl' = [hl EXCEPT ![h] = StartLocal(p, m)]
    /\ UNCHANGED <<guests, conv, creation, active, now, sw, ig, th>>

\* The next store access of process h.
Step(h) ==
    /\ LET c == HandlerStep(World, hl[h])
       IN  Commit(c.w) /\ hl' = [hl EXCEPT ![h] = c.l] /\ ig' = AfterReply(ig, c)
    /\ UNCHANGED <<sw, th>>

RouteMessage(h) ==
    /\ hl[h].pc \in RoutePcs
    /\ Step(h)

Onboarding(h) ==
    /\ hl[h].pc \in OnboardingPcs
    /\ Step(h)

ContactSubmission(h) ==
    /\ hl[h].pc \in ContactPcs
    /\ Step(h)

UseQuota(h) ==
    /\ hl[h].pc \in QuotaPcs
    /\ Step(h)

ReinviteExpiredGuest(h) ==
    /\ hl[h].pc \in ReinvitePcs
    /\ Step(h)

SendInvite(h) ==
    /\ hl[h].pc \in InvitePcs
    /\ Step(h)

\* The poll loop calls run_expiration_checks.
SweepBegin ==
    /\ sw.pc = "idle"
    /\ sw' = StartSweep
    /\ UNCHANGED <<guests, conv, creation, active, now, hl, ig, th>>

\* The next store access of the sweeper.
StepSweep ==
    /\ LET c == SweepStep(World, sw)
       IN  Commit(c.w) /\ sw' = c.l
    /\ UNCHANGED <<hl, ig, th>>

CheckInviteExpirations ==
    /\ sw.pc \in InviteCheckPcs
    /\ StepSweep

CheckPlusOneExpirations ==
    /\ sw.pc \in PlusOneCheckPcs
    /\ StepSweep

\* ------------------------------------------------------------ specifications
\* One call at a time, as the poll loop runs them.  Guests 1..NumSpeakers
\* are invited by the host and answer their texts; the guest they invite
\* stays silent.
Silent == NumSpeakers + 1
GuestTexts == {MsgYes, MsgNo, MsgPhone(Silent)}

NextSeq ==
    \/ \E p \in Speakers, m \in GuestTexts : Message(p, m)
    \/ \E t \in Speakers : Message(HostPhone, MsgPhone(t))
    \/ Sweep
    \/ Tick(EndTime)

SpecSeq == Starts(SeqWorld) /\ [][NextSeq]_vars

\* An expired guest, their inviter and the host text the bot, one call at a
\* time; "create event" and "cancel" are among the texts.
GateTexts == {MsgYes, MsgNo, MsgFaq, MsgName, MsgPhone(2), MsgCreate, MsgCancel}

NextGate == \E p \in {1, 2, HostPhone}, m \in GateTexts : Message(p, m)

SpecGate == Starts(GateWorld) /\ [][NextGate]_vars

\* Guest 1 is waiting_for_contact with quota_used 0 and sends NumSpenders
\* contacts, each handled by a process of its own.
NextSpend ==
    \E h \in Spenders :
        \/ \E t \in Phones \ {1} : Receive(h, 1, MsgPhone(t))
        \/ RouteMessage(h)
        \/ ContactSubmission(h)
        \/ UseQuota(h)
        \/ SendInvite(h)

SpecSpend == Starts(SpendWorld) /\ [][NextSpend]_vars

\* Guest 1 is waiting_for_contact with quota_used 0, guest 2 is expired;
\* guest 1 sends the contacts of guests 2 and 3, each handled by a process of
\* its own; the sweep runs between their store accesses and the clock runs
\* between the calls.
NextQuota ==
    \/ \E h \in Handlers :
        \/ \E t \in {2, 3} : Receive(h, 1, MsgPhone(t))
        \/ RouteMessage(h)
        \/ ContactSubmission(h)
        \/ UseQuota(h)
        \/ ReinviteExpiredGuest(h)
        \/ SendInvite(h)
    \/ Sweep
    \/ Tick(ReinviteWorld.now + MaxTicks * TickSeconds)

SpecQuota == Starts(ReinviteWorld) /\ [][NextQuota]_vars

\* Guest 1's invite is 60 minutes old; their answer is handled by a process
\* of its own while the sweeper runs.
NextAccept ==
    \/ \E m \in {MsgYes, MsgNo} : Receive(1, 1, m)
    \/ RouteMessage(1)
    \/ Onboarding(1)
    \/ SweepBegin
    \/ CheckInviteExpirations
    \/ CheckPlusOneExpirations

SpecAccept == Starts(AcceptWorld) /\ [][NextAccept]_vars

\* Guest 1 has been invited and sends two texts, each handled by a process of
\* its own.
NextTwo ==
    \E h \in {1, 2} :
        \/ \E m \in {MsgYes, MsgNo, MsgName} : Receive(h, 1, m)
        \/ RouteMessage(h)
        \/ Onboarding(h)

SpecTwo == Starts(InvitedWorld) /\ [][NextTwo]_vars

\* ------------------------------------------------------------ claims
\* The guest rows that name i as their inviter.
Invitees(i) ==
    {p \in Phones : guests[p].status # "none" /\ guests[p].invited_by_phone = i}

\* use_quota has returned the new guest's id to process h.
Spent(h) == hl[h].ret = "cs_reread"

\* C1: under every interleaving of concurrent quota spends of one inviter,
\* each for a new phone, the spends that succeed and the guest rows that
\* name the inviter never exceed the cap.
C1_SpendsWithinCap ==
    \A i \in Phones :
        /\ Cardinality(Invitees(i)) <= InviteCap
        /\ Cardinality({h \in DOMAIN hl : hl[h].phone = i /\ Spent(h)}) <= InviteCap

\* C2: every guest's quota_used is within 0..2 and the store's guard has
\* refused none of the writes of quota_used.
C2_QuotaInRangeAndAccepted ==
    /\ \A p \in Phones : guests[p].quota_used \in 0..InviteCap
    /\ ~sw.rejected

\* C6: a second sweep right after a sweep leaves every guest row and every
\* conversation state as the first sweep left them.
C6_SweepIdempotent ==
    LET once == run_expiration_checks(World)
        twice == run_expiration_checks(once)
    IN  twice.guests = once.guests /\ twice.conv = once.conv

\* A sweep that has work to do: it expires a +1 invitee and refunds the
\* inviter, and it records a warning for another guest.
C6_Witness ==
    LET once == run_expiration_checks(World)
    IN  /\ \E p \in Phones :
            /\ guests[p].status = "pending" /\ once.guests[p].status = "expired"
            /\ guests[p].invited_by_phone # NoPhone
            /\ once.guests[guests[p].invited_by_phone].quota_used
                   = guests[guests[p].invited_by_phone].quota_used - 1
        /\ \E p \in Phones : once.conv[p].context # conv[p].context
                                /\ once.conv[p].state = conv[p].state

\* C8: use_quota is all-or-nothing.  When it returns, the inviter's
\* quota_used has grown by one and the one new row is the invitee's, pending
\* and naming the inviter; when it raises, no guest row has changed.
C8_SpendAllOrNothing ==
    \A i, t \in Phones :
        LET c == use_quota(World, i, t)
        IN  IF c.l.pc # "done"
            THEN /\ guests[t].status = "none"
                 /\ c.w.guests[t] = NewGuest(i, now)
                 /\ c.w.guests[i].quota_used = guests[i].quota_used + 1
                 /\ \A p \in Phones \ {i, t} : c.w.guests[p] = guests[p]
                 /\ \A f \in DOMAIN NoGuest \ {"quota_used"} :
                        c.w.guests[i][f] = guests[i][f]
            ELSE c.w.guests = guests

\* A spend has gone through (the invitee's row names the inviter, whose
\* quota_used is 1), a spend for a new phone would now raise "Quota already
\* used", one for a present phone would fail on the INSERT, and a pending
\* guest's would be refused.
C8_Witness ==
    \E i, t, u, v \in Phones :
        /\ guests[t].status = "pending" /\ guests[t].invited_by_phone = i
        /\ guests[i].quota_used = 1
        /\ guests[u].status = "none"
        /\ use_quota(World, i, u).l.reply = "Quota already used"
        /\ guests[v].status = "confirmed" /\ guests[v].quota_used = 0
        /\ use_quota(World, v, t).l.reply = "error"

\* C10: a confirmed guest with quota_used 0 invites two new phones one after
\* the other through the conversation and ends with quota_used 2.
C10_TwoInvitesAllowed ==
    \A p, t1, t2 \in Phones :
        (/\ active = 1
         /\ guests[p].status = "confirmed" /\ guests[p].quota_used = 0
         /\ conv[p].state \in {"waiting_for_contact", "idle"}
         /\ t1 # t2 /\ guests[t1].status = "none" /\ guests[t2].status = "none")
        => LET first == Run(World, p, MsgPhone(t1))
               second == Run(first.w, p, MsgPhone(t2))
           IN  /\ first.w.guests[t1].invited_by_phone = p
               /\ second.w.guests[t2].invited_by_phone = p
               /\ second.w.guests[p].quota_used = 2

\* C3: a guest whose acceptance has been handled while the sweeper's expiry
\* pass was under way is confirmed, not expired: from the handler's write of
\* the acceptance on, the status is confirmed.
C3_AcceptedStaysConfirmed ==
    \A h \in DOMAIN hl, p \in Phones :
        (/\ hl[h].phone = p /\ hl[h].n = 1
         /\ hl[h].pc = "ir_upsert" \/ hl[h].reply = "accepted_ask_name")
        => guests[p].status = "confirmed"

\* C4: every text of an expired guest is answered with the expired notice
\* and changes neither the guest's row nor their conversation state.
C4_ExpiredIsBlocked ==
    \A p \in Phones, m \in GateTexts :
        (active = 1 /\ guests[p].status = "expired")
        => LET c == Run(World, p, m)
           IN  /\ c.l.reply = "expired"
               /\ c.w.guests[p] = guests[p]
               /\ c.w.conv[p] = conv[p]

\* C5: when the two texts of guest 1 have been handled, each by a process of
\* its own, the guest's status and conversation state are those of handling
\* the two texts one after the other in one of the two orders.
C5_SomeSerialOrder ==
    (hl[1].pc = "done" /\ hl[2].pc = "done")
    => \E first, second \in {1, 2} :
           /\ first # second
           /\ LET w == After(After(InvitedWorld, 1, hl[first].msg), 1, hl[second].msg)
              IN  /\ guests[1].status = w.guests[1].status
                  /\ conv[1].state = w.conv[1].state

\* The +1 invitees of i that a step expires.
Expiring(i) ==
    {p \in Phones : /\ guests[p].status = "pending" /\ guests'[p].status = "expired"
                    /\ guests[p].invited_by_phone = i}

\* C7: a sweep that expires +1 invitees takes one off their inviter's
\* quota_used for each of them, no more and no less.
C7_RefundPerExpiry ==
    [][\A i \in Phones :
           Expiring(i) # {}
           => guests'[i].quota_used = guests[i].quota_used - Cardinality(Expiring(i))]_vars

\* The re-invite of process h went through: both of its writes were accepted.
Reinvited(h) == hl[h].ret = "ri_reread"

\* C9: a re-invite that went through has consumed a slot of its own: once
\* the calls have returned, the inviter's quota_used covers the invitees of
\* theirs that are pending.
C9_ReinviteConsumesSlot ==
    \A h \in DOMAIN hl, i \in Phones :
        (/\ \A k \in DOMAIN hl : hl[k].pc \in {"idle", "done"}
         /\ Reinvited(h) /\ hl[h].phone = i
         /\ guests[hl[h].target].status = "pending"
         /\ guests[hl[h].target].invited_by_phone = i)
        => Cardinality({p \in Invitees(i) : guests[p].status = "pending"})
               <= guests[i].quota_used

\* ------------------------------------------------------------ texts that match several parsers
\* "not this time": NO_PATTERNS matches, and so does the FAQ pattern 'when'
\* (the word "time").
MsgNotThisTime == [MsgNo EXCEPT !.faq = TRUE, !.skip = FALSE, !.done = FALSE]
\* "no, I'm not in town": NO_PATTERNS matches "no", YES_PATTERNS matches "in".
MsgNoNotIn == [MsgNo EXCEPT !.yes = TRUE, !.skip = FALSE, !.done = FALSE, !.name = FALSE,
                            !.handle = FALSE]
\* "yes! what time?": YES_PATTERNS and the FAQ pattern 'when' match.
MsgYesWhatTime == [MsgYes EXCEPT !.faq = TRUE, !.name = FALSE, !.handle = FALSE]

RsvpTexts == {MsgYes, MsgNo, MsgNotThisTime, MsgNoNotIn, MsgYesWhatTime}

\* Guest p is pending and in waiting_for_response.
AwaitingRsvp(p) ==
    /\ active = 1
    /\ guests[p].status = "pending"
    /\ conv[p].state = "waiting_for_response"

\* C11: from waiting_for_response, a text that detect_yes accepts confirms
\* the guest and moves them to waiting_for_name, and a text that detect_no
\* accepts declines the guest.
C11_RsvpAlwaysDecides ==
    \A p \in Phones, m \in RsvpTexts :
        AwaitingRsvp(p)
        => LET w == After(World, p, m)
           IN  /\ m.yes => /\ w.guests[p].status = "confirmed"
                           /\ w.conv[p].state = "waiting_for_name"
               /\ m.no => w.guests[p].status = "declined"

\* "can I bring 5550100?": the FAQ pattern 'plus_one' matches and the text
\* holds a phone number.
MsgBringPhone == [MsgPhone(Silent) EXCEPT !.faq = TRUE]

FaqTexts == {MsgFaq, MsgYesWhatTime, MsgNotThisTime, MsgBringPhone}

\* Guest p is on the list and has neither declined nor expired.
NonTerminal(p) == active = 1 /\ guests[p].status \in {"pending", "confirmed"}

\* C12: a text with a FAQ keyword from a guest who has neither declined nor
\* expired is answered with the FAQ reply and leaves the guest's row and the
\* guest's conversation state and context as they were.
C12_FaqChangesNothing ==
    \A p \in Phones, m \in FaqTexts :
        NonTerminal(p)
        => LET c == Run(World, p, m)
           IN  /\ c.l.reply = "faq"
               /\ c.w.guests[p] = guests[p]
               /\ c.w.conv[p] = conv[p]

\* A confirmed guest who is waiting_for_contact with a context of their own,
\* and a pending guest in waiting_for_response, both about to be answered a
\* FAQ text.
C12_Witness ==
    /\ \E p \in Phones :
           /\ NonTerminal(p) /\ guests[p].status = "confirmed"
           /\ conv[p].state = "waiting_for_contact" /\ conv[p].context # EmptyCtx
           /\ Run(World, p, MsgBringPhone).l.reply = "faq"
    /\ \E p \in Phones :
           /\ AwaitingRsvp(p)
           /\ Run(World, p, MsgYesWhatTime).l.reply = "faq"

\* "is there parking?": no parser matches; the language model, when it is
\* reachable, answers with [ESCALATE].
MsgAskHost == [MsgOther EXCEPT !.llm = "escalate"]

DeclinedTexts == {MsgYes, MsgNo, MsgName, MsgPhone(Silent), MsgOther, MsgAskHost}

\* C13: every text of a guest who has declined gets one and the same
\* terminal response; the guest stays declined, the guest's conversation
\* state row is not rewritten, no quota check is made and the host's
\* conversation state is left alone.
C13_DeclinedIsTerminal ==
    \A p \in Phones, m \in DeclinedTexts :
        (active = 1 /\ guests[p].status = "declined")
        => LET c == Run(World, p, m)
           IN  /\ c.l.reply = Run(World, p, MsgOther).l.reply
               /\ c.l.reply # "quota_exceeded"
               /\ c.w.guests[p] = guests[p]
               /\ c.w.conv[p] = conv[p]
               /\ c.w.conv[HostPhone] = conv[HostPhone]

\* C14: in waiting_for_contact, a text with a phone number that normalizes
\* leaves the sender's conversation state idle, whether the invite goes out
\* or is refused.
C14_ContactEndsIdle ==
    \A p \in Phones, t \in Phones :
        (/\ active = 1 /\ t # p
         /\ guests[p].status \in {"pending", "confirmed", "declined"}
         /\ conv[p].state = "waiting_for_contact")
        => After(World, p, MsgPhone(t)).conv[p].state = "idle"

\* ------------------------------------------------------------ the sweep and the windows
\* The store one tick before the expiry feature was deployed: guests invited
\* now are the "pre-existing guests" the sweep leaves alone.
EarlyWorld == [World0 EXCEPT !.now = FEATURE_DEPLOY_TIME - TickSeconds]

\* The host invites guests 1..NumSpeakers at any time from before the
\* deployment on; they answer "yes" to every prompt or send a contact; the
\* clock advances and the sweep runs, one call at a time.
WindowTexts == {MsgYes, MsgPhone(Silent)}

NextWindow ==
    \/ \E t \in Speakers : Message(HostPhone, MsgPhone(t))
    \/ \E p \in Speakers, m \in WindowTexts : Message(p, m)
    \/ Sweep
    \/ Tick(EndTime)

SpecWindow == Starts(EarlyWorld) /\ [][NextWindow]_vars

\* check_invite_expirations running alone on store w, start to return.
RECURSIVE RunInviteCheckFrom(_)
RunInviteCheckFrom(c) ==
    IF c.l.pc \notin InviteCheckPcs THEN c ELSE RunInviteCheckFrom(SweepStep(c.w, c.l))

check_invite_expirations(w) == RunInviteCheckFrom([w |-> w, l |-> StartSweep]).w

\* check_plus_one_expirations running alone on store w, start to return.
check_plus_one_expirations(w) ==
    RunSweepFrom([w |-> w, l |-> [IdleSweep EXCEPT !.pc = "cp_list"]]).w

\* Seconds since guest p was invited.
InviteAge(p) == now - guests[p].invited_at

\* What one invite sweep does to guest p, by the age of the invite.
InviteWindowApplied(p) ==
    LET w == check_invite_expirations(World)
    IN  /\ InviteAge(p) < INVITE_WARNING_SECONDS
           => w.guests[p] = guests[p] /\ w.conv[p] = conv[p]
        /\ (InviteAge(p) >= INVITE_WARNING_SECONDS /\ InviteAge(p) < INVITE_EXPIRE_SECONDS)
           => /\ w.guests[p] = guests[p]
              /\ w.conv[p].state = conv[p].state
              /\ w.conv[p].context
                     = {kv \in conv[p].context : kv[1] # "invite_warning_sent"}
                       \cup Ctx("invite_warning_sent", 1)
        /\ InviteAge(p) >= INVITE_EXPIRE_SECONDS
           => /\ w.guests[p].status = "expired"
              /\ w.conv[p] = [state |-> "idle", context |-> Ctx("expired", 1)]

\* C15 as stated: one invite sweep applies the windows to every pending
\* guest in waiting_for_response: nothing below 45 minutes, the warning flag
\* from 45 minutes, expiry from 60 minutes.
C15_WindowsForEveryPending ==
    \A p \in Phones : AwaitingRsvp(p) => InviteWindowApplied(p)

\* C15, amended: one invite sweep applies the windows to every pending guest
\* in waiting_for_response who was invited at or after FEATURE_DEPLOY_TIME;
\* a guest invited before it is left as they are.
C15_WindowsSinceDeploy ==
    \A p \in Phones :
        AwaitingRsvp(p)
        => IF guests[p].invited_at >= FEATURE_DEPLOY_TIME
           THEN InviteWindowApplied(p)
           ELSE LET w == check_invite_expirations(World)
                IN  w.guests[p] = guests[p] /\ w.conv[p] = conv[p]

\* Two guests invited since the deployment, one at 60 minutes whom the sweep
\* expires and one between 45 and 60 minutes whom it flags as warned.
C15_Witness ==
    \E p, q \in Phones :
        /\ AwaitingRsvp(p) /\ AwaitingRsvp(q)
        /\ guests[p].invited_at >= FEATURE_DEPLOY_TIME
        /\ guests[q].invited_at >= FEATURE_DEPLOY_TIME
        /\ InviteAge(p) = INVITE_EXPIRE_SECONDS
        /\ InviteAge(q) = INVITE_WARNING_SECONDS
        /\ ~CtxHas(conv[q].context, "invite_warning_sent")
        /\ LET w == check_invite_expirations(World)
           IN  /\ w.guests[p].status = "expired"
               /\ CtxHas(w.conv[q].context, "invite_warning_sent")

\* The 45-minute warnings a sweep with locals s has sent to guest p.
WarningsSent(s, p) ==
    Cardinality({i \in DOMAIN s.sent : s.sent[i] = <<p, "invite_warning">>})

Flagged(ctx) == CtxHas(ctx, "invite_warning_sent")

\* A sweep run now warns guest p at most once, only if p is not flagged as
\* warned, and p is flagged after it; it does warn p when the warning is due.
WarnedOnce(p, due) ==
    LET c == RunSweep(World)
    IN  /\ WarningsSent(c.l, p) <= 1
        /\ WarningsSent(c.l, p) = 1
           => ~Flagged(conv[p].context) /\ Flagged(c.w.conv[p].context)
        /\ (due /\ ~Flagged(conv[p].context))
           => WarningsSent(c.l, p) = 1 /\ Flagged(c.w.conv[p].context)

\* The flag stays for as long as the guest is pending on the same invite.
FlagKept(p) ==
    (/\ Flagged(conv[p].context)
     /\ guests'[p].status = "pending" /\ conv'[p].state = "waiting_for_response"
     /\ guests'[p].invited_at = guests[p].invited_at)
    => Flagged(conv'[p].context)

\* C16 as stated: a pending guest is warned at most once per invite; the
\* first sweep at 45 minutes or more sends the warning and sets the flag, the
\* flag stays, and no sweep warns a flagged guest.
C16_WarnedOnceFrom45 ==
    [][\A p \in Phones :
           AwaitingRsvp(p)
           => /\ WarnedOnce(p, InviteAge(p) >= INVITE_WARNING_SECONDS)
              /\ FlagKept(p)]_vars

\* C16, amended: the warning is due for a guest invited at or after
\* FEATURE_DEPLOY_TIME whom a sweep finds between 45 and 60 minutes; a guest
\* first swept at 60 minutes or more is expired unwarned.
C16_WarnedOnceInWindow ==
    [][\A p \in Phones :
           AwaitingRsvp(p)
           => /\ WarnedOnce(p, /\ guests[p].invited_at >= FEATURE_DEPLOY_TIME
                               /\ InviteAge(p) >= INVITE_WARNING_SECONDS
                               /\ InviteAge(p) < INVITE_EXPIRE_SECONDS)
              /\ FlagKept(p)]_vars

\* A guest who was warned at 45 minutes and is swept again in the same
\* window: the flag is there and the sweep sends no second warning.
C16_Witness ==
    \E p \in Phones :
        /\ AwaitingRsvp(p) /\ Flagged(conv[p].context)
        /\ InviteAge(p) >= INVITE_WARNING_SECONDS
        /\ InviteAge(p) < INVITE_EXPIRE_SECONDS
        /\ WarningsSent(RunSweep(World).l, p) = 0

\* Guest p is confirmed with invites left and answered the invite, since the
\* deployment, at least `age` seconds ago.
PlusOneWindowAt(p, age) ==
    /\ active = 1
    /\ guests[p].status = "confirmed"
    /\ guests[p].quota_used < InviteCap
    /\ guests[p].responded_at >= FEATURE_DEPLOY_TIME
    /\ now - guests[p].responded_at >= age

PastOnboarding == {"waiting_for_plus_one", "waiting_for_contact", "idle"}

\* C17: one plus-one sweep leaves a confirmed guest whose window of 60
\* minutes has run out with quota_used at the cap, and in state idle if the
\* guest was past onboarding.
C17_WindowRevoked ==
    \A p \in Phones :
        PlusOneWindowAt(p, PLUS_ONE_EXPIRE_SECONDS)
        => LET w == check_plus_one_expirations(World)
           IN  /\ w.guests[p].quota_used = InviteCap
               /\ conv[p].state \in PastOnboarding => w.conv[p].state = "idle"

\* check_plus_one_expirations running alone on the store as it is: the store
\* it leaves and its locals at the return.
RunPlusOneCheck == RunSweepFrom([w |-> World, l |-> [IdleSweep EXCEPT !.pc = "cp_list"]])

\* The texts a sweep with locals s has sent to guest p.
TextsSent(s, p) == {i \in DOMAIN s.sent : s.sent[i][1] = p}

\* C18: for a confirmed guest still in waiting_for_name or
\* waiting_for_instagram, the plus-one sweep at 60 minutes revokes the unused
\* invites, sends the guest nothing and leaves the conversation state and
\* context alone; at 45 minutes it neither warns the guest nor flags a
\* warning.
C18_SilentDuringOnboarding ==
    \A p \in Phones :
        (PlusOneWindowAt(p, PLUS_ONE_WARNING_SECONDS) /\ conv[p].state \in ONBOARDING_STATES)
        => LET c == RunPlusOneCheck
           IN  /\ TextsSent(c.l, p) = {}
               /\ c.w.conv[p] = conv[p]
               /\ PlusOneWindowAt(p, PLUS_ONE_EXPIRE_SECONDS)
                  => c.w.guests[p].quota_used = InviteCap

\* ------------------------------------------------------------ the social graph
\* Guests 1..NumFollowers take part; the last of them answers late.
Followers == 1..NumFollowers
Late == NumFollowers

\* The store and the Instagram tables after one more message handled alone.
Texted(x, phone, msg) ==
    LET c == Run(x.w, phone, msg)
    IN  [w |-> c.w, ig |-> AfterReply(x.ig, c)]

\* A running sweep up to the store access `pc` (or to its return).
RECURSIVE SweepUntil(_, _)
SweepUntil(c, pc) ==
    IF c.l.pc \in {pc, "idle"} THEN c ELSE SweepUntil(SweepStep(c.w, c.l), pc)

\* The host has invited the guests; an hour later all but the last have said
\* yes.
RECURSIVE Accepted(_)
Accepted(n) ==
    IF n = 0 THEN Later(HostInvited(NumFollowers), MaxTicks)
    ELSE After(Accepted(n - 1), n, MsgYes)

\* A sweep has then read the last guest pending (the fresh read included);
\* before its write that guest has said yes and given a name and a handle;
\* the sweep has written `expired` and returned.  The guest is expired with a
\* follow job queued.
LateStart ==
    LET paused == SweepUntil([w |-> Accepted(NumFollowers - 1), l |-> StartSweep],
                             "ci_update")
        answered == Texted(Texted(Texted([w |-> paused.w, ig |-> NoTables],
                        Late, MsgYes), Late, MsgName), Late, MsgName)
        resumed == RunSweepFrom([w |-> answered.w, l |-> paused.l])
    IN  [w |-> resumed.w, ig |-> answered.ig]

StartsGraph ==
    /\ guests = LateStart.w.guests
    /\ conv = LateStart.w.conv
    /\ creation = LateStart.w.creation
    /\ active = LateStart.w.active
    /\ now = LateStart.w.now
    /\ hl = [h \in Spenders \cup Handlers |-> IdleLocal]
    /\ sw = IdleSweep
    /\ ig = LateStart.ig
    /\ th = NoThreads

\* _worker_loop takes the next job off the queue and runs _process_ig_job
\* to its return, for the answers of the browser.
ProcessIgJob(follow_result, following) ==
    /\ ig.queue # <<>>
    /\ ig' = process_ig_job(World, [ig EXCEPT !.queue = Tail(@)], Head(ig.queue),
                            follow_result, following)
    /\ UNCHANGED <<guests, conv, creation, active, now, hl, sw, th>>

\* check_mutual_connections runs once more for a guest whose list has been
\* scraped (a second job for the same guest), under the handle of the
\* guest's ig_follow_status row.
CheckMutualConnections(p) ==
    /\ ig.follow_status[p].scraped_at # 0
    /\ ig' = check_mutual_connections(World, ig, ig.follow_status[p].handle, p)
    /\ UNCHANGED <<guests, conv, creation, active, now, hl, sw, th>>

\* The guests give their names and handles, the host invites the late guest
\* again, who says yes, and the worker runs the queued jobs and repeats
\* cross-references, one call at a time.  The accounts are public, private
\* or gone.
GraphResults == {"followed", "requested", "not_found"}

NextGraph ==
    \/ \E p \in Followers : Message(p, MsgName)
    \/ Message(Late, MsgYes)
    \/ Message(HostPhone, MsgPhone(Late))
    \/ \E r \in GraphResults, f \in Listings \cup {NoListing} : ProcessIgJob(r, f)
    \/ \E p \in Followers : CheckMutualConnections(p)

SpecGraph == StartsGraph /\ [][NextGraph]_vars

\* C19: for every ordered pair (notified guest, subject guest) there is at
\* most one row in ig_notifications_sent and at most one mutual-connection
\* notice has been sent, however many times check_mutual_connections has
\* run for the subject.
C19_OneNoticePerPair ==
    \A q \in Phones, p \in Phones :
        /\ ig.notifications_sent[<<q, p>>] <= 1
        /\ ig.notices[<<q, p>>] <= 1

\* A cross-reference for p has just returned nobody although q, confirmed
\* and following p's handle, was notified about p by an earlier one.
C19_Witness ==
    \E q \in Followers, p \in Followers :
        /\ q # p
        /\ ig.about = p
        /\ ig.notified = <<>>
        /\ q \in find_followers_of(World, ig, ig.follow_status[p].handle)
        /\ ig.notices[<<q, p>>] = 1
        /\ ig.notifications_sent[<<q, p>>] = 1

\* The guests a cross-reference for p should reach: the other guests with
\* status confirmed and a stored edge to p's handle.
Reachable(p) ==
    {q \in Phones \ {p} :
        /\ guests[q].status = "confirmed"
        /\ <<q, Lower(ig.follow_status[p].handle)>> \in ig.following}

\* The guests the run that leaves tables `after` has notified, from its
\* return value.
NotifiedBy(after) == {after.notified[i][1] : i \in 1..Len(after.notified)}

\* C20: from every reachable state, check_mutual_connections for a guest p
\* under p's handle sends one notice to each guest it returns and to nobody
\* else; the guests it returns are other guests than p, confirmed, with a
\* stored edge to p's handle; and when the ledger holds nothing about p (p is
\* newly scraped) they are exactly all such guests.
C20_NotifiesConfirmedFollowers ==
    \A p \in Followers :
        ig.follow_status[p].status # "none" =>
            LET after == check_mutual_connections(World, ig,
                                                  ig.follow_status[p].handle, p)
                N == NotifiedBy(after)
            IN  /\ N \subseteq Reachable(p)
                /\ N = {q \in Reachable(p) : ig.notifications_sent[<<q, p>>] = 0}
                /\ Len(after.notified) = Cardinality(N)
                /\ \A q \in Phones, s \in Phones :
                       after.notices[<<q, s>>] - ig.notices[<<q, s>>]
                           = IF s = p /\ q \in N THEN 1 ELSE 0
                /\ (\A q \in Phones : ig.notifications_sent[<<q, p>>] = 0)
                       => N = Reachable(p)

\* The first cross-reference for p has just notified a confirmed follower
\* and nobody else, while p follows its own handle and a guest who is not
\* confirmed follows p as well.
C20_Witness ==
    \E p \in Followers, q \in Followers, x \in Followers :
        /\ ig.about = p
        /\ ig.notified = <<<<q, p>>>>
        /\ guests[q].status = "confirmed"
        /\ <<p, Lower(ig.follow_status[p].handle)>> \in ig.following
        /\ x \notin {p, q}
        /\ guests[x].status # "confirmed"
        /\ <<x, Lower(ig.follow_status[p].handle)>> \in ig.following
        /\ ig.notices[<<q, p>>] = 1
        /\ ig.notices[<<x, p>>] = 0
        /\ ig.notices[<<p, p>>] = 0

\* ------------------------------------------------------------ the worker thread
\* A thread of the process takes its next step in
\* trigger_ig_follow_and_scrape, up to the put of the job.
TriggerIgFollowAndScrape(c) ==
    /\ th.caller[c] \in {"idle", "put"}
    /\ LET r == trigger_step(ig, th, c)
       IN  r.enabled /\ ig' = r.ig /\ th' = r.th
    /\ UNCHANGED <<guests, conv, creation, active, now, hl, sw>>

\* The thread takes its next step in _ensure_worker.
EnsureWorker(c) ==
    /\ th.caller[c] \in {"lock", "test", "start", "release"}
    /\ LET r == trigger_step(ig, th, c)
       IN  r.enabled /\ ig' = r.ig /\ th' = r.th
    /\ UNCHANGED <<guests, conv, creation, active, now, hl, sw>>

\* A worker thread takes its next step in _worker_loop.
WorkerLoop(t, follow_result, following) ==
    /\ LET r == worker_step(World, ig, th, t, follow_result, following)
       IN  r.enabled /\ ig' = r.ig /\ th' = r.th
    /\ UNCHANGED <<guests, conv, creation, active, now, hl, sw>>

\* The listings of a scrape in the specifications of the worker: none, or
\* every guest.
WorkerListings == {NoListing, {Lower(TypedHandle(p)) : p \in 1..NumFollowers}}

\* NumCallers threads of one process call trigger_ig_follow_and_scrape, each
\* for a guest of its own; the threads and the workers they start run in any
\* order.
NextThreads ==
    \/ \E c \in Callers : TriggerIgFollowAndScrape(c)
    \/ \E c \in Callers : EnsureWorker(c)
    \/ \E t \in Callers, r \in GraphResults, f \in WorkerListings : WorkerLoop(t, r, f)

SpecThreads == Starts(Accepted(NumFollowers)) /\ [][NextThreads]_vars

Trigger(c) ==
    /\ th.caller[c] = "idle"
    /\ LET r == TriggerFrom(ig, th, c)
       IN  ig' = r.ig /\ th' = r.th
    /\ UNCHANGED <<guests, conv, creation, active, now, hl, sw>>

\* The worker's _job_queue.get times out: _queue_pending_rescans.
QueuePendingRescans(t) ==
    /\ LET r == worker_timeout(World, ig, th, t)
       IN  r.enabled /\ ig' = r.ig /\ th' = r.th
    /\ UNCHANGED <<guests, conv, creation, active, now, hl, sw>>

\* The process stops and is started again.
Restart ==
    /\ th.restarts < MaxRestarts
    /\ LET r == restarted(ig, th)
       IN  ig' = r.ig /\ th' = r.th
    /\ UNCHANGED <<guests, conv, creation, active, now, hl, sw>>

\* The clock of the worker's specification runs for MaxTicks ticks after the
\* guests have accepted.
WorkerEnd == EndTime + MaxTicks * TickSeconds

\* The guests who give a handle in the worker's specification.
WorkerGuests == 1..(NumCallers - 1)

\* The guests give their handles; the one worker of the process runs the
\* jobs, call of the browser by call, and sweeps for rescans when idle; the
\* clock runs; the process is started again.
NextWorker ==
    \/ \E c \in WorkerGuests : Trigger(c)
    \/ \E t \in Callers, r \in FollowResults, f \in WorkerListings : WorkerLoop(t, r, f)
    \/ \E t \in Callers : QueuePendingRescans(t)
    \/ Restart
    \/ Tick(WorkerEnd)

SpecWorker == Starts(Accepted(NumFollowers)) /\ [][NextWorker]_vars

\* ------------------------------------------------------------ C22
\* C22: when the follow of a job comes back not_found or error, the outcome
\* is written to the guest's follow-status row and the job stops there: the
\* worker goes back to the queue without a scrape, no following row is
\* stored, and no notice is sent or recorded, whatever the page would list.
C22_FailedFollowStops ==
    \A t \in Callers : th.worker[t].pc = "follow" =>
        \A r \in {"not_found", "error"}, f \in WorkerListings :
            LET job == th.worker[t].job
                s == worker_step(World, ig, th, t, r, f)
                whole == process_ig_job(World, ig, job, r, f)
            IN  /\ s.enabled
                /\ s.ig.follow_status[job.guest_id].status = r
                /\ s.ig.follow_status[job.guest_id].scraped_at
                       = ig.follow_status[job.guest_id].scraped_at
                /\ s.th.worker[t].pc = "get"
                /\ s.ig.following = ig.following
                /\ s.ig.notices = ig.notices
                /\ s.ig.notifications_sent = ig.notifications_sent
                /\ whole = s.ig

\* A follow came back not_found or error and the worker is at the queue
\* again.
C22_Witness ==
    \E g \in Phones, t \in Callers :
        /\ ig.follow_status[g].status \in {"not_found", "error"}
        /\ th.worker[t].pc = "get"

\* ------------------------------------------------------------ C23
\* C23: when the follow of a job came back requested and the scrape that
\* follows lists nothing (the account is private), the job leaves the
\* guest's row with status requested and no scrape recorded, so that once
\* the cool-down has passed get_pending_rescans selects the row and the idle
\* sweep queues a rescan for it.
C23_PrivateLeftForRescan ==
    \A t \in Callers :
        (th.worker[t].pc = "scrape" /\ th.worker[t].follow_result = "requested") =>
            LET g == th.worker[t].job.guest_id
                s == worker_step(World, ig, th, t, "requested", NoListing)
                row == s.ig.follow_status[g]
                later == [World EXCEPT !.now = row.followed_at + RESCAN_INTERVAL + 1]
            IN  /\ row.status = "requested"
                /\ row.scraped_at = 0
                /\ g \in get_pending_rescans(later, s.ig, RESCAN_INTERVAL)

\* ------------------------------------------------------------ C24
\* The guests whose row is requested, has no scrape time, and has a follow
\* time more than RESCAN_INTERVAL seconds before the clock.
DueForRescan ==
    {g \in Phones :
        /\ ig.follow_status[g].status = "requested"
        /\ ig.follow_status[g].scraped_at = 0
        /\ ig.follow_status[g].followed_at # 0
        /\ now - ig.follow_status[g].followed_at > RESCAN_INTERVAL}

\* C24: the idle sweep puts one rescan job on the queue for each row that is
\* requested, has no scrape recorded and was followed more than 30 minutes
\* ago, and for no other row; it changes nothing else.
C24_SweepQueuesDueRows ==
    LET after == queue_pending_rescans(World, ig)
        old == Len(ig.queue)
    IN  /\ Len(after.queue) = old + Cardinality(DueForRescan)
        /\ SubSeq(after.queue, 1, old) = ig.queue
        /\ {after.queue[i] : i \in (old + 1)..Len(after.queue)}
              = {[type |-> "rescan", guest_id |-> g,
                  handle |-> ig.follow_status[g].handle] : g \in DueForRescan}
        /\ [after EXCEPT !.queue = ig.queue] = ig

\* The sweep has queued a rescan for one guest and none for another whose
\* row is requested and as old but has a scrape time.
C24_Witness ==
    \E g \in Phones, h \in Phones :
        /\ \E i \in 1..Len(ig.queue) :
              ig.queue[i].type = "rescan" /\ ig.queue[i].guest_id = g
        /\ \A i \in 1..Len(ig.queue) : ig.queue[i].guest_id # h
        /\ ig.follow_status[h].status = "requested"
        /\ ig.follow_status[h].scraped_at # 0
        /\ now - ig.follow_status[h].followed_at > RESCAN_INTERVAL

\* ------------------------------------------------------------ C25
\* C25: a rescan job whose scrape lists the account stores every listed
\* handle as an edge of the guest, writes the scrape time and the number of
\* handles to the guest's row, and runs the cross-reference: every other
\* confirmed guest with an edge to the guest's handle has a notice about the
\* guest, sent now if none was recorded before.  A rescan job whose scrape
\* lists nothing leaves every table as it was.
C25_RescanStoresOrLeaves ==
    \A t \in Callers : th.worker[t].pc = "rescan" =>
        LET job == th.worker[t].job
            g == job.guest_id
            none == worker_step(World, ig, th, t, "requested", NoListing)
        IN  /\ none.enabled /\ none.ig = ig
            /\ \A f \in WorkerListings \ {NoListing} :
                  LET after == worker_step(World, ig, th, t, "requested", f).ig
                      row == after.follow_status[g]
                  IN  /\ \A h \in f : <<g, Lower(h)>> \in after.following
                      /\ row.scraped_at = now
                      /\ row.following_count = Cardinality(f)
                      /\ row.status = "requested"
                      /\ \A q \in Phones \ {g} :
                            (/\ guests[q].status = "confirmed"
                             /\ <<q, Lower(job.handle)>> \in ig.following) =>
                                /\ after.notifications_sent[<<q, g>>] = 1
                                /\ after.notices[<<q, g>>] =
                                       IF ig.notifications_sent[<<q, g>>] = 0
                                       THEN ig.notices[<<q, g>>] + 1
                                       ELSE ig.notices[<<q, g>>]

\* The worker has taken a rescan job for a guest whose handle a confirmed
\* guest follows, and no notice about the guest is recorded yet.
C25_Witness ==
    \E t \in Callers, q \in Phones :
        /\ th.worker[t].pc = "rescan"
        /\ q # th.worker[t].job.guest_id
        /\ guests[q].status = "confirmed"
        /\ <<q, Lower(th.worker[t].job.handle)>> \in ig.following
        /\ ig.notifications_sent[<<q, th.worker[t].job.guest_id>>] = 0
        /\ ig.follow_status[th.worker[t].job.guest_id].scraped_at = 0

\* ------------------------------------------------------------ C26
\* The worker's specification with its scheduling: a worker thread that can
\* take a step takes one, the get of an idle worker times out, and the clock
\* runs on.
SpecWorkerLive ==
    /\ SpecWorker
    /\ WF_vars(\E t \in Callers, r \in FollowResults, f \in WorkerListings :
                   WorkerLoop(t, r, f))
    /\ WF_vars(\E t \in Callers : QueuePendingRescans(t))
    /\ WF_vars(Tick(WorkerEnd))

\* The job of guest g has not completed: the row is there, no failure of the
\* follow and no scrape is recorded.
Incomplete(g) ==
    /\ ig.follow_status[g].status \in {"pending", "followed", "already_following", "requested"}
    /\ ig.follow_status[g].scraped_at = 0

\* A worker is inside the job of guest g.
Executing(g) ==
    \E t \in Callers :
        /\ th.worker[t].pc \in {"follow", "scrape", "rescan"}
        /\ th.worker[t].job.guest_id = g

\* The cool-down of a follow of g, if there was one, ends within the clock's
\* range.
CoolDownEnds(g) ==
    ig.follow_status[g].followed_at + RESCAN_INTERVAL < WorkerEnd

\* The process has been started again for the last time.
Restarted == th.restarts = MaxRestarts

\* C26: after a restart, every job that had not completed when the process
\* stopped is eventually executed by the worker.
C26_IncompleteJobsRecovered ==
    \A g \in WorkerGuests :
        (Restarted /\ Incomplete(g) /\ CoolDownEnds(g)) ~> Executing(g)

\* After a restart, every job whose row is pending, or requested with no
\* scrape, is eventually executed by the worker.
PendingAndRequestedRecovered ==
    \A g \in WorkerGuests :
        (/\ Restarted /\ Incomplete(g) /\ CoolDownEnds(g)
         /\ ig.follow_status[g].status \in {"pending", "requested"}) ~> Executing(g)

\* ------------------------------------------------------------ C27
\* The answers of the language model that the handler of a state cannot use:
\* none (no client, an exception, no JSON), or an answer without the key the
\* handler reads.
Unusable(state) ==
    CASE state = "waiting_for_response" -> {"none", "name", "handle"}
      [] state = "waiting_for_name" -> {"none", "yes", "handle"}
      [] state = "waiting_for_instagram" -> {"none", "yes", "name"}
      [] state = "waiting_for_plus_one" -> {"none", "name", "contact"}

\* The texts no parser of the state's handler matches (and no FAQ keyword):
\* "hmm what?" everywhere, a name where a yes or no is asked for, a handle
\* where a name is asked for, a name of two words where a handle is.
Unparsed(state) ==
    CASE state = "waiting_for_response" -> {MsgOther, MsgName}
      [] state = "waiting_for_name" -> {MsgOther, [MsgOther EXCEPT !.handle = TRUE]}
      [] state = "waiting_for_instagram" -> {MsgOther, [MsgOther EXCEPT !.name = TRUE]}
      [] state = "waiting_for_plus_one" -> {MsgOther, MsgName}

Inconclusive(state) ==
    {[m EXCEPT !.llm = a] : m \in Unparsed(state), a \in Unusable(state)}

Reprompt(state) ==
    CASE state = "waiting_for_response" -> "reprompt_rsvp"
      [] state = "waiting_for_name" -> "invalid_name"
      [] state = "waiting_for_instagram" -> "reprompt_handle"
      [] state = "waiting_for_plus_one" -> "reprompt_plus_one"

\* The four states in which a guest is asked something.
AskingStates ==
    {"waiting_for_response", "waiting_for_name", "waiting_for_instagram",
     "waiting_for_plus_one"}

\* Guest p is on the list, not expired, and is being asked something.
Asked(p) ==
    /\ active = 1
    /\ guests[p].status \notin {"none", "expired"}
    /\ conv[p].state \in AskingStates

\* C27: in waiting_for_response, waiting_for_name, waiting_for_instagram and
\* waiting_for_plus_one, a text that no parser of the handler matches and for
\* which the language model gives nothing the handler can use is answered
\* with the re-prompt of the state; the guest's row (status and quota_used
\* included) and the guest's conversation state and context stay as they were.
C27_RepromptChangesNothing ==
    \A p \in Phones :
        Asked(p) =>
            \A m \in Inconclusive(conv[p].state) :
                LET c == Run(World, p, m)
                IN  /\ c.l.reply = Reprompt(conv[p].state)
                    /\ c.w.guests = guests
                    /\ c.w.conv = conv

\* One guest is asked for a name while another is offered the +1.
C27_Witness ==
    \E p \in Phones, q \in Phones :
        /\ Asked(p) /\ conv[p].state = "waiting_for_name"
        /\ Asked(q) /\ conv[q].state = "waiting_for_plus_one"
        /\ Run(World, p, MsgOther).l.reply = "invalid_name"
        /\ Run(World, q, MsgOther).l.reply = "reprompt_plus_one"

\* ------------------------------------------------------------ C28
\* Guest p is on the list, not expired, idle, and the host is in no event
\* creation flow.
IdleGuest(p) ==
    /\ active = 1
    /\ guests[p].status \notin {"none", "expired"}
    /\ conv[p].state \in {"none", "idle"}
    /\ creation[p].state \in {"none", "idle"}
    /\ creation[HostPhone].state \in {"none", "idle"}

\* What the host may text next: an answer in words, a phone number, "create
\* event".
HostTexts == {MsgOther, MsgPhone(Silent), MsgCreate}

\* What another guest may text before the host does: nothing is handled, or
\* one of these.
OtherTexts == {MsgOther, MsgYes, MsgAskHost}

\* The store after guest p has asked, with nothing handled after it or with
\* one text of another guest q.
AfterQuestion(p) ==
    LET asked == Run(World, p, MsgAskHost).w
    IN  {asked} \cup {Run(asked, q, m).w : q \in Phones \ {p}, m \in OtherTexts}

\* C28: when an idle guest p sends a text without FAQ keyword and without
\* phone that the language model answers with [ESCALATE], the host's
\* conversation state becomes answering_guest_question with p's phone and the
\* question in its context and p's own row and state are unchanged; the next
\* text of the host is sent on to p and the host's state is idle again.
C28_EscalationForwarded ==
    \A p \in Phones :
        IdleGuest(p) =>
            LET c == Run(World, p, MsgAskHost)
            IN  /\ c.l.reply = "checking"
                /\ c.w.conv[HostPhone].state = "answering_guest_question"
                /\ c.w.conv[HostPhone].context
                       = Ctx("guest_phone", p) \cup Ctx("question", 1)
                /\ c.w.conv[p] = conv[p]
                /\ c.w.guests = guests
                /\ \A w \in AfterQuestion(p), m \in HostTexts :
                       LET h == Run(w, HostPhone, m)
                       IN  /\ h.l.reply = "sent_to_guest"
                           /\ h.l.target = p
                           /\ h.w.conv[HostPhone].state = "idle"

\* The same with the host's text an answer in words and nothing handled
\* between the question and the answer.
EscalationAnsweredAtOnce ==
    \A p \in Phones :
        IdleGuest(p) =>
            LET c == Run(World, p, MsgAskHost)
                h == Run(c.w, HostPhone, MsgOther)
            IN  /\ c.l.reply = "checking"
                /\ c.w.conv[HostPhone].state = "answering_guest_question"
                /\ c.w.conv[HostPhone].context
                       = Ctx("guest_phone", p) \cup Ctx("question", 1)
                /\ c.w.conv[p] = conv[p]
                /\ c.w.guests = guests
                /\ h.l.reply = "sent_to_guest"
                /\ h.l.target = p
                /\ h.w.conv[HostPhone] = [state |-> "idle", context |-> EmptyCtx]

\* ------------------------------------------------------------ C29
\* Following the invited_by_phone links from guest p, with `seen` the guests
\* already passed, ends at a guest without inviter: every link on the way
\* names a guest with a row, and none that was passed before.
RECURSIVE ReachesRoot(_, _)
ReachesRoot(p, seen) ==
    LET inviter == guests[p].invited_by_phone
    IN  IF inviter = NoPhone THEN TRUE
        ELSE IF inviter \notin Phones THEN FALSE
        ELSE IF guests[inviter].status = "none" THEN FALSE
        ELSE IF inviter \in seen THEN FALSE
        ELSE ReachesRoot(inviter, seen \cup {inviter})

\* C29: the invited_by_phone links form a forest rooted at the guests the
\* host invited: every guest's link is null or names a guest with a row, and
\* following the links from any guest ends at a guest with a null link
\* without passing a guest twice.
C29_InviterForest ==
    \A p \in Phones : guests[p].status # "none" => ReachesRoot(p, {p})

\* Guest 1's invite is 60 minutes old.  Guests 1 and 2 text the bot, one call
\* at a time, while another process runs the sweeper, store access by store
\* access.
ForestTexts == {MsgYes, MsgNo, MsgName, MsgSkip, MsgPhone(1), MsgPhone(2)}

NextForest ==
    \/ \E p \in {1, 2}, m \in ForestTexts : Message(p, m)
    \/ SweepBegin
    \/ CheckInviteExpirations
    \/ CheckPlusOneExpirations

SpecForest == Starts(Later(InvitedWorld, MaxTicks)) /\ [][NextForest]_vars

\* ------------------------------------------------------------ the location drop
\* The host's location text is handled: trigger_location_drop, start to
\* return.
TriggerLocationDrop ==
    /\ active = 1
    /\ th.timer.pc = "none"
    /\ th' = trigger_location_drop(World, th)
    /\ UNCHANGED <<guests, conv, creation, active, now, hl, sw, ig>>

CancelLocationDrop ==
    /\ th.timer.pc # "none"
    /\ th' = cancel_location_drop(World, th)
    /\ UNCHANGED <<guests, conv, creation, active, now, hl, sw, ig>>

\* The Timer's thread takes a step.
TimerRun ==
    /\ LET r == timer_run(World, th)
       IN  r.enabled /\ th' = r.th
    /\ UNCHANGED <<guests, conv, creation, active, now, hl, sw, ig>>

\* The clock of the location drop's specification runs for two ticks.
DropEnd == StartTime + 2 * TickSeconds

\* The guests the host invited answer yes or no, the host drops the
\* location once and may cancel the reveal, the Timer's thread runs, and the
\* clock runs.
NextDrop ==
    \/ \E p \in Speakers, m \in {MsgYes, MsgNo} : Message(p, m)
    \/ TriggerLocationDrop
    \/ CancelLocationDrop
    \/ TimerRun
    \/ Tick(DropEnd)

SpecDrop == Starts(SeqWorld) /\ [][NextDrop]_vars

\* ------------------------------------------------------------ C30
\* C30: when trigger_location_drop returns, every guest who was confirmed
\* when it was called has been given the warning, and nobody else; and when
\* the reveal has been cancelled before its delay elapsed, the location text
\* has been given to nobody.
C30_WarnedThenCancellable ==
    /\ LET after == trigger_location_drop(World, th)
       IN  th.timer.pc = "none" =>
               /\ \A p \in Phones :
                      after.warned[p] = IF guests[p].status = "confirmed" THEN 1 ELSE 0
               /\ after.revealed = th.revealed
    /\ (th.timer.cancelled_at # 0 /\ th.timer.cancelled_at < th.timer.due) =>
           /\ \A p \in Phones : th.revealed[p] = 0
           /\ th.timer.pc # "sending"

\* The reveal was cancelled before its delay elapsed, the delay has elapsed
\* since, the Timer's thread has ended, and a guest who was warned has not
\* been given the location.
C30_Witness ==
    /\ th.timer.cancelled_at # 0
    /\ th.timer.cancelled_at < th.timer.due
    /\ now >= th.timer.due
    /\ th.timer.pc = "done"
    /\ \E p \in Phones : th.warned[p] = 1 /\ th.revealed[p] = 0
    /\ \E p \in Phones : guests[p].status # "none" /\ th.warned[p] = 0

\* ------------------------------------------------------------ C31
\* The keys a merge is given: each warning flag of the sweeper, both at once,
\* and a new value for a key the invite has set.
MergedKeys ==
    {Ctx("invite_warning_sent", 1), Ctx("plus_one_warning_sent", 1),
     Ctx("invite_warning_sent", 1) \cup Ctx("plus_one_warning_sent", 1),
     Ctx("invite_sent_at", 2)}

\* C31: merge_conversation_context on a conversation row sets each given key
\* to the given value and leaves the row's state, every other key of its
\* context, every other row and the guests as they were.
C31_MergeKeepsTheRest ==
    \A p \in Phones, new \in MergedKeys :
        conv[p].state # "none" =>
            LET after == merge_conversation_context(World, p, new)
            IN  /\ after.conv[p].state = conv[p].state
                /\ \A kv \in new : kv \in after.conv[p].context
                /\ \A kv \in after.conv[p].context :
                       kv \in new \/ (kv \in conv[p].context /\ ~CtxHas(new, kv[1]))
                /\ \A kv \in conv[p].context :
                       ~CtxHas(new, kv[1]) => kv \in after.conv[p].context
                /\ \A q \in AllPhones \ {p} : after.conv[q] = conv[q]
                /\ after.guests = guests

\* The sweeper has merged the warning flag into the context of a guest who
\* is still waiting_for_response with the key of the invite.
C31_Witness ==
    \E p \in Phones :
        /\ conv[p].state = "waiting_for_response"
        /\ CtxHas(conv[p].context, "invite_warning_sent")
        /\ CtxHas(conv[p].context, "invite_sent_at")

\* ------------------------------------------------------------ C32
\* C32: the status of every row of ig_follow_status is pending, followed,
\* requested, not_found or error, whatever follow_user returns.
C32_StatusInDomain ==
    \A g \in Phones :
        ig.follow_status[g].status # "none" =>
            ig.follow_status[g].status
                \in {"pending", "followed", "requested", "not_found", "error"}

\* ------------------------------------------------------------ the worker's loop
\* The job the worker is in raises.
JobRaises(t) ==
    /\ LET r == worker_raise(th, t)
       IN  r.enabled /\ th' = r.th
    /\ UNCHANGED <<guests, conv, creation, active, now, hl, sw, ig>>

\* The worker's specification with jobs that raise.
NextLoop ==
    \/ NextWorker
    \/ \E t \in Callers : JobRaises(t)

SpecLoop == Starts(Accepted(NumFollowers)) /\ [][NextLoop]_vars

\* Its scheduling: the worker's thread runs, the get of an idle worker times
\* out, the clock runs on.
SpecLoopLive ==
    /\ SpecLoop
    /\ WF_vars(\E t \in Callers, r \in FollowResults, f \in WorkerListings :
                   WorkerLoop(t, r, f))
    /\ WF_vars(\E t \in Callers : QueuePendingRescans(t))
    /\ WF_vars(Tick(WorkerEnd))

\* ------------------------------------------------------------ C33
\* A worker thread that is alive stays alive while the process runs.
WorkerStaysAlive ==
    [][\A t \in Callers :
          (is_alive(th, t) /\ th'.restarts = th.restarts) => is_alive(th', t)]_vars

\* When the job a worker is in raises, the worker is at the queue again with
\* the queue and the tables as they were.
RaiseGoesOn ==
    [][\A t \in Callers :
          (th.worker[t].pc \in {"follow", "scrape", "rescan"}
           /\ th'.worker[t].pc = "get" /\ ig' = ig)
          => (th'.worker[t] = [NoWorker EXCEPT !.pc = "get"] /\ ig'.queue = ig.queue)]_vars

\* A job of guest g is on the queue.
Queued(g) == \E i \in 1..Len(ig.queue) : ig.queue[i].guest_id = g

\* A job of guest g that is on the queue of the running process is taken by
\* the worker, whatever the jobs before it did.
QueuedIsTaken ==
    \A g \in WorkerGuests : (Restarted /\ Queued(g)) ~> Executing(g)

\* An empty poll runs the rescan sweep once: one job per due row is put on
\* the queue, and the worker is at the poll again.
EmptyPollSweepsOnce ==
    [][\A t \in Callers :
          (th.worker[t].pc = "get" /\ ig.queue = <<>> /\ ig' # ig /\ th' = th) =>
              /\ ig' = queue_pending_rescans(World, ig)
              /\ Len(ig'.queue) = Cardinality(DueForRescan)
              /\ \A g \in DueForRescan :
                     Cardinality({i \in 1..Len(ig'.queue) : ig'.queue[i].guest_id = g}) = 1]_vars

\* C33: the worker's loop does not end by itself: a job that raises leaves
\* the worker at the queue and the jobs behind it are still taken, and a poll
\* of the empty queue that times out runs the rescan sweep once and polls
\* again.
C33_LoopGoesOn ==
    /\ WorkerStaysAlive
    /\ RaiseGoesOn
    /\ QueuedIsTaken
    /\ EmptyPollSweepsOnce

\* A job has raised before its follow was recorded: the row is pending with
\* no job of the guest queued or in flight, in a process that was never
\* stopped, and the worker is at the queue.
C33_Witness ==
    \E g \in WorkerGuests, t \in Callers :
        /\ th.restarts = 0
        /\ ig.follow_status[g].status = "pending"
        /\ ~Queued(g) /\ ~Executing(g)
        /\ th.worker[t].pc = "get"

\* ------------------------------------------------------------ C34
\* The rescan jobs of guest g on the queue.
QueuedRescans(q, g) ==
    Cardinality({i \in 1..Len(q) : q[i].type = "rescan" /\ q[i].guest_id = g})

\* The rescan jobs of guest g a worker is in.
RescansInFlight(g) ==
    Cardinality({t \in Callers :
                    th.worker[t].pc = "rescan" /\ th.worker[t].job.guest_id = g})

\* C34: no row has more than one rescan job queued or in flight, and a row
\* that has been scraped gets no further rescan job.
C34_RescansDoNotPileUp ==
    /\ [](\A g \in Phones : QueuedRescans(ig.queue, g) + RescansInFlight(g) <= 1)
    /\ [][\A g \in Phones :
             ig.follow_status[g].scraped_at # 0
             => QueuedRescans(ig'.queue, g) <= QueuedRescans(ig.queue, g)]_vars

\* A rescan has succeeded: a requested row was scraped more than the rescan
\* interval after its follow, later a sweep has run past it (another row's
\* rescan is queued or in flight), and no rescan of the row is queued.
C34_Witness ==
    \E g \in WorkerGuests, h \in WorkerGuests :
        /\ g # h
        /\ ig.follow_status[g].status = "requested"
        /\ ig.follow_status[g].scraped_at - ig.follow_status[g].followed_at > RESCAN_INTERVAL
        /\ now > ig.follow_status[g].scraped_at
        /\ QueuedRescans(ig.queue, h) + RescansInFlight(h) = 1
        /\ QueuedRescans(ig.queue, g) + RescansInFlight(g) = 0

\* ------------------------------------------------------------ C35
\* The guests invited by i whose invite has not expired.
LiveInvitees(i) == {p \in Invitees(i) : guests[p].status # "expired"}

\* No handler is between two of its store accesses.
HandlersAtRest == \A k \in DOMAIN hl : hl[k].pc \in {"idle", "done"}

\* C35: every guest's quota_used covers the guests they invited whose invite
\* has not expired; stated for the states in which every handler has finished.
C35_LedgerCoversInvitees ==
    HandlersAtRest =>
        \A i \in Phones :
            guests[i].status # "none"
            => Cardinality(LiveInvitees(i)) <= guests[i].quota_used

\* ------------------------------------------------------------ C36
\* How many times the sweep with locals s has sent guest p the text kind.
TimesSent(s, p, kind) ==
    Cardinality({i \in DOMAIN s.sent : s.sent[i] = <<p, kind>>})

\* The conversation row of p in store w2 was written by the reset of the
\* plus-one check, and was different in store w1.
ResetBetween(w1, w2, p) ==
    /\ w2.conv[p] # w1.conv[p]
    /\ w2.conv[p].state = "idle"
    /\ CtxHas(w2.conv[p].context, "plus_one_expired")

\* Three sweeps from the present store, a and b ticks apart; every invite
\* that has run out by then is expired and refunded by them.
ThreeSweeps(a, b) ==
    LET s1 == RunSweep(World)
        s2 == RunSweep(Later(s1.w, a))
        s3 == RunSweep(Later(s2.w, b))
    IN  <<s1, s2, s3>>

StatusChanges ==
    {<<"none", "pending">>, <<"pending", "confirmed">>, <<"pending", "declined">>,
     <<"pending", "expired">>, <<"expired", "pending">>}

\* C38: whatever the interleaving of handlers, host commands and sweeper,
\* every step that changes a guest's status makes one of these changes;
\* confirmed and declined are never left.
C38_StatusChanges ==
    [][\A p \in Phones :
          (active' = active /\ guests'[p].status # guests[p].status)
          => <<guests[p].status, guests'[p].status>> \in StatusChanges]_vars

\* ------------------------------------------------------------ C39
\* The states in which the bot is collecting a confirmed guest's details.
CollectingStates ==
    {"waiting_for_name", "waiting_for_instagram", "waiting_for_plus_one",
     "waiting_for_contact"}

\* No sweep is between two of its store accesses.
SweepAtRest == sw.pc = "idle"

\* C39: when no handler and no sweep is mid-execution, every pending guest of
\* the active event is in waiting_for_response, and every guest in a
\* collecting state is confirmed.
C39_StatusAgreesWithState ==
    (HandlersAtRest /\ SweepAtRest /\ active = 1) =>
        \A p \in Phones :
            /\ guests[p].status = "pending" => conv[p].state = "waiting_for_response"
            /\ conv[p].state \in CollectingStates => guests[p].status = "confirmed"

\* ------------------------------------------------------------ C40
\* Phone p is neither the host nor a guest of the active event.
Stranger(p) == active = 1 /\ p # HostPhone /\ guests[p].status = "none"

\* C40: a text from a sender who is neither the host nor a guest of the
\* active event, whatever it says, leaves every guest row, the event rows and
\* every conversation-state row as they were.
C40_StrangerChangesNothing ==
    \A p \in Phones, m \in GateTexts :
        Stranger(p) =>
            LET after == Run(World, p, m).w
            IN  /\ after.guests = guests
                /\ after.active = active
                /\ after.conv = conv
                /\ after.creation = creation

=============================================================================
